---- MODULE Spec2Model ----
(***************************************************************************)
(* A model of promkit: the grapheme model, the text buffer, the text       *)
(* editor and checkbox widgets, and the Prompt::run driver loop.           *)
(*                                                                         *)
(* Indices are 0-based as in the Rust source; TLA+ sequences are 1-based,  *)
(* so element i of a Vec is s[i + 1].                                       *)
(***************************************************************************)
EXTENDS Integers, Sequences, FiniteSets, TLC

(***************************************************************************)
(* Bounds of the model.                                                    *)
(***************************************************************************)
\* Largest buffer length (sentinel included) up to which the text-buffer
\* harness keeps inserting.
MaxLen == 4
\* Longest grapheme sequence handed to TextBuffer::replace by the harness.
MaxNew == 2
\* Longest text (sentinel excluded) the editor of a Prompt session may hold.
MaxText == 1
\* Largest number of texts a Prompt session inserts into the history.
MaxHist == 1
\* Longest grapheme sequence handed to Graphemes::longest_common_prefix.
MaxSeq == 3
\* Longest label of the text editor whose pane is generated.
MaxLabel == 2
\* Largest terminal width, in columns.
MaxWidth == 4
\* Largest number of terminal rows, and of rows the select box leaves
\* unused above it (init_move_down_lines), of a select State.
MaxRows == 3
\* Largest number of items of a select box.
MaxItems == 3
\* Largest number of items, and largest window, of the select box of a
\* select session.
MaxList == 10
MaxCap == 3
\* Largest number of rows of a pane handed to the terminal's diff renderer.
MaxPaneRows == 2

(***************************************************************************)
(* Grapheme model (grapheme.rs).                                           *)
(***************************************************************************)
\* Display width of a character, as unicode_width reports it: "W" stands
\* for a wide (East Asian) character, "z" for a zero-width one.
UnicodeWidthChar(c) ==
    CASE c = "W" -> 2
      [] c = "z" -> 0
      [] OTHER -> 1

\* impl From<char> for Grapheme
Grapheme(c) == [ch |-> c, width |-> UnicodeWidthChar(c)]

\* impl From<S> for Graphemes: one grapheme per character of the string,
\* the string given as a sequence of characters.
RECURSIVE Graphemes(_)
Graphemes(s) ==
    IF s = <<>> THEN <<>>
    ELSE <<Grapheme(Head(s))>> \o Graphemes(Tail(s))

\* Graphemes::longest_common_prefix with skip(1) ahead of take_while.
RECURSIVE Graphemes_longest_common_prefix_skip_first(_, _)
Graphemes_longest_common_prefix_skip_first(a, g) ==
    IF a = <<>> \/ g = <<>> THEN <<>>
    ELSE IF Len(a) = 1 \/ Len(g) = 1 THEN <<>>
    ELSE IF a[2] = g[2]
    THEN <<a[2]>> \o Graphemes_longest_common_prefix_skip_first(Tail(a), Tail(g))
    ELSE <<>>

\* Graphemes::longest_common_prefix with filter in place of take_while.
RECURSIVE Graphemes_longest_common_prefix_filter(_, _)
Graphemes_longest_common_prefix_filter(a, g) ==
    IF a = <<>> \/ g = <<>> THEN <<>>
    ELSE IF Head(a) = Head(g)
    THEN <<Head(a)>> \o Graphemes_longest_common_prefix_filter(Tail(a), Tail(g))
    ELSE Graphemes_longest_common_prefix_filter(Tail(a), Tail(g))

\* Graphemes::longest_common_prefix: zip, take_while(a == b), collect.
\* Grapheme equality is the derived one, on ch and width.
RECURSIVE Graphemes_longest_common_prefix(_, _)
Graphemes_longest_common_prefix(a, g) ==
    IF a = <<>> \/ g = <<>> THEN <<>>
    ELSE IF Head(a) = Head(g)
    THEN <<Head(a)>> \o Graphemes_longest_common_prefix(Tail(a), Tail(g))
    ELSE <<>>

\* The characters the text-buffer harness types.
TBChars == {"a", "d", " "}

\* All sequences over S of length 0..n.
SeqsUpTo(S, n) == UNION {[1..k -> S] : k \in 0..n}

(***************************************************************************)
(* Vec operations used by TextBuffer.  Each is defined only when the index *)
(* is in range; the callers below check the range and record a panic.      *)
(***************************************************************************)
\* Vec::insert(index, element): requires index <= len.
VecInsert(s, i, x) == SubSeq(s, 1, i) \o <<x>> \o SubSeq(s, i + 1, Len(s))
\* Vec::splice(from..to, xs): requires from <= to <= len.
VecSplice(s, from, to, xs) == SubSeq(s, 1, from) \o xs \o SubSeq(s, to + 1, Len(s))
\* Vec::drain(from..to): requires from <= to <= len.
VecDrain(s, from, to) == SubSeq(s, 1, from) \o SubSeq(s, to + 1, Len(s))
\* Vec::pop(): removes the last element if there is one.
VecPop(s) == IF s = <<>> THEN <<>> ELSE SubSeq(s, 1, Len(s) - 1)

(***************************************************************************)
(* TextBuffer (text_buffer.rs).  A buffer is [buf, position].  Every       *)
(* mutating operation yields [tb, ret, panic]: the buffer afterwards, the  *)
(* returned pair, and whether the call panicked (index out of range or     *)
(* usize underflow).                                                       *)
(***************************************************************************)
\* The sentinel: Grapheme::new(' ').
Sentinel == Grapheme(" ")

TextBuffer_new == [buf |-> Graphemes(<<" ">>), position |-> 0]

\* TextBuffer::text returning the content in front of the cursor.
TextBuffer_text_before_cursor(t) == SubSeq(t.buf, 1, t.position)

TextBuffer_text(t) == VecPop(t.buf)

TextBuffer_is_head(t) == t.position = 0

\* self.buf.len() - 1 underflows on an empty buffer.
TextBuffer_is_tail(t) == t.position = Len(t.buf) - 1

\* TextBuffer::next without the is_tail() test.
TextBuffer_next_no_clamp(t) ==
    LET prev == t
        after == [t EXCEPT !.position = @ + 1]
    IN [tb |-> after, ret |-> <<prev, after>>, panic |-> FALSE]

TextBuffer_next(t) ==
    LET prev == t
        underflow == Len(t.buf) = 0
        after == IF ~underflow /\ ~TextBuffer_is_tail(t)
                 THEN [t EXCEPT !.position = @ + 1]
                 ELSE t
    IN [tb |-> after, ret |-> <<prev, after>>, panic |-> underflow]

\* TextBuffer::prev cloning `prev` after the decrement.
TextBuffer_prev_late_clone(t) ==
    LET after == IF ~TextBuffer_is_head(t)
                 THEN [t EXCEPT !.position = @ - 1]
                 ELSE t
    IN [tb |-> after, ret |-> <<after, after>>, panic |-> FALSE]

TextBuffer_prev(t) ==
    LET prev == t
        after == IF ~TextBuffer_is_head(t)
                 THEN [t EXCEPT !.position = @ - 1]
                 ELSE t
    IN [tb |-> after, ret |-> <<prev, after>>, panic |-> FALSE]

TextBuffer_to_head(t) ==
    LET prev == t
        after == [t EXCEPT !.position = 0]
    IN [tb |-> after, ret |-> <<prev, after>>, panic |-> FALSE]

\* TextBuffer::to_tail jumping to buf.len(), one past the sentinel.
TextBuffer_to_tail_past_sentinel(t) ==
    LET prev == t
        after == [t EXCEPT !.position = Len(t.buf)]
    IN [tb |-> after, ret |-> <<prev, after>>, panic |-> FALSE]

TextBuffer_to_tail(t) ==
    LET prev == t
        underflow == Len(t.buf) = 0
        after == IF underflow THEN t ELSE [t EXCEPT !.position = Len(t.buf) - 1]
    IN [tb |-> after, ret |-> <<prev, after>>, panic |-> underflow]

\* TextBuffer::insert without the trailing self.next().
TextBuffer_insert_no_next(t, ch) ==
    LET prev == t
        grown == [t EXCEPT !.buf = VecInsert(t.buf, t.position, ch)]
    IN [tb |-> grown, ret |-> <<prev, grown>>, panic |-> FALSE]

TextBuffer_insert(t, ch) ==
    LET prev == t
        inRange == t.position <= Len(t.buf)
        grown == [t EXCEPT !.buf = VecInsert(t.buf, t.position, ch)]
        stepped == TextBuffer_next(grown)
    IN IF inRange
       THEN [tb |-> stepped.tb, ret |-> <<prev, stepped.tb>>, panic |-> stepped.panic]
       ELSE [tb |-> t, ret |-> <<prev, t>>, panic |-> TRUE]

\* TextBuffer::overwrite inserting wherever the cursor is.
TextBuffer_overwrite_as_insert(t, ch) == TextBuffer_insert(t, ch)

\* TextBuffer::overwrite without the is_tail() branch: it always splices.
TextBuffer_overwrite_always_splice(t, ch) ==
    LET prev == t
        spliced == [t EXCEPT !.buf = VecSplice(t.buf, t.position, t.position + 1, <<ch>>)]
        stepped == TextBuffer_next(spliced)
    IN [tb |-> stepped.tb, ret |-> <<prev, stepped.tb>>, panic |-> stepped.panic]

TextBuffer_overwrite(t, ch) ==
    LET prev == t
        underflow == Len(t.buf) = 0
        inRange == t.position + 1 <= Len(t.buf)
        spliced == [t EXCEPT !.buf = VecSplice(t.buf, t.position, t.position + 1, <<ch>>)]
        stepped == TextBuffer_next(spliced)
    IN IF underflow THEN [tb |-> t, ret |-> <<prev, t>>, panic |-> TRUE]
       ELSE IF TextBuffer_is_tail(t) THEN TextBuffer_insert(t, ch)
       ELSE IF inRange
       THEN [tb |-> stepped.tb, ret |-> <<prev, stepped.tb>>, panic |-> stepped.panic]
       ELSE [tb |-> t, ret |-> <<prev, t>>, panic |-> TRUE]

\* TextBuffer::erase draining at the cursor instead of before it.
TextBuffer_erase_at_cursor(t) ==
    LET prev == t
        after == [t EXCEPT !.buf = VecDrain(t.buf, t.position, t.position + 1)]
    IN IF TextBuffer_is_head(t) THEN [tb |-> t, ret |-> <<prev, t>>, panic |-> FALSE]
       ELSE [tb |-> after, ret |-> <<prev, after>>, panic |-> FALSE]

\* TextBuffer::erase draining before the cursor without stepping back.
TextBuffer_erase_no_prev(t) ==
    LET prev == t
        after == [t EXCEPT !.buf = VecDrain(t.buf, t.position - 1, t.position)]
    IN IF TextBuffer_is_head(t) THEN [tb |-> t, ret |-> <<prev, t>>, panic |-> FALSE]
       ELSE [tb |-> after, ret |-> <<prev, after>>, panic |-> FALSE]

TextBuffer_erase(t) ==
    LET prev == t
        stepped == TextBuffer_prev(t).tb
        inRange == stepped.position + 1 <= Len(stepped.buf)
        after == [stepped EXCEPT !.buf = VecDrain(stepped.buf, stepped.position,
                                                  stepped.position + 1)]
    IN IF TextBuffer_is_head(t) THEN [tb |-> t, ret |-> <<prev, t>>, panic |-> FALSE]
       ELSE IF inRange THEN [tb |-> after, ret |-> <<prev, after>>, panic |-> FALSE]
       ELSE [tb |-> stepped, ret |-> <<prev, stepped>>, panic |-> TRUE]

\* TextBuffer::replace keeping the current content in front of the new one.
TextBuffer_replace_appending(t, new) ==
    LET pushed == [t EXCEPT !.buf = Append(VecPop(t.buf) \o new, Sentinel)]
        moved == TextBuffer_to_tail(pushed)
    IN [tb |-> moved.tb, ret |-> <<>>, panic |-> moved.panic]

\* TextBuffer::replace without pushing the sentinel.
TextBuffer_replace_no_sentinel(t, new) ==
    LET adopted == [t EXCEPT !.buf = new]
        moved == TextBuffer_to_tail(adopted)
    IN [tb |-> moved.tb, ret |-> <<>>, panic |-> moved.panic]

\* TextBuffer::replace leaving the cursor at the head of the new content.
TextBuffer_replace_to_head(t, new) ==
    [tb |-> [buf |-> Append(new, Sentinel), position |-> 0], ret |-> <<>>, panic |-> FALSE]

\* replace returns nothing; ret is the empty tuple.
TextBuffer_replace(t, new) ==
    LET pushed == [t EXCEPT !.buf = Append(new, Sentinel)]
        moved == TextBuffer_to_tail(pushed)
    IN [tb |-> moved.tb, ret |-> <<>>, panic |-> moved.panic]

\* TextBuffer::erase_all emptying the buffer and leaving the cursor where it
\* was.
TextBuffer_erase_all_keep_cursor(t) ==
    [tb |-> [t EXCEPT !.buf = <<Sentinel>>], ret |-> <<t, [t EXCEPT !.buf = <<Sentinel>>]>>,
     panic |-> FALSE]

\* TextBuffer::erase_all: back to the empty buffer (sentinel only, cursor 0).
TextBuffer_erase_all(t) ==
    [tb |-> TextBuffer_new, ret |-> <<t, TextBuffer_new>>, panic |-> FALSE]

\* Display for Graphemes: the characters, widths dropped.
RECURSIVE Graphemes_to_string(_)
Graphemes_to_string(g) ==
    IF g = <<>> THEN <<>>
    ELSE <<Head(g).ch>> \o Graphemes_to_string(Tail(g))

\* TextBuffer::to_string_without_cursor
TextBuffer_to_string_without_cursor(t) == Graphemes_to_string(TextBuffer_text(t))

(***************************************************************************)
(* Input events (crossterm::event).  A key event is (code, modifiers,      *)
(* kind, state); modifiers and state are sets of flags, the empty set      *)
(* being NONE.                                                             *)
(***************************************************************************)
KeyCode(key, ch) == [key |-> key, ch |-> ch]

KeyEvent(code, modifiers, kind, state) ==
    [type |-> "Key", code |-> code, modifiers |-> modifiers, kind |-> kind, state |-> state]

\* A terminal resize, the one non-key event of the model.
ResizeEvent ==
    [type |-> "Resize", code |-> KeyCode("Null", ""), modifiers |-> {}, kind |-> "Press",
     state |-> {}]

\* No event read yet.
NoEvent ==
    [type |-> "None", code |-> KeyCode("Null", ""), modifiers |-> {}, kind |-> "Press",
     state |-> {}]

\* The pattern Event::Key(KeyEvent { code, modifiers, kind: Press, state: NONE }).
Matches(event, code, modifiers) ==
    /\ event.type = "Key"
    /\ event.code = code
    /\ event.modifiers = modifiers
    /\ event.kind = "Press"
    /\ event.state = {}

Press(code, modifiers) == KeyEvent(code, modifiers, "Press", {})

EnterPress == Press(KeyCode("Enter", ""), {})
CtrlC == Press(KeyCode("Char", "c"), {"CONTROL"})

(***************************************************************************)
(* History and Suggest, the text editor's collaborators.  A history is     *)
(* [buf, position]: the inserted texts followed by one empty entry, and    *)
(* the index of the current entry.  A suggest is a list of candidates.     *)
(***************************************************************************)
History_default == [buf |-> << <<>> >>, position |-> 0]

History_exists(h, item) == \E i \in 1..Len(h.buf) : h.buf[i] = item

\* insert: a new text goes right before the trailing empty entry; the
\* position moves to the tail either way.
History_insert(h, item) ==
    LET grown == IF History_exists(h, item) THEN h.buf
                 ELSE SubSeq(h.buf, 1, Len(h.buf) - 1) \o <<item, <<>> >>
    IN [buf |-> grown, position |-> Len(grown) - 1]

History_get(h) == h.buf[h.position + 1]

\* prev / next: [moved, history]; moved tells whether the position changed.
History_prev(h) ==
    IF 0 < h.position
    THEN [moved |-> TRUE, history |-> [h EXCEPT !.position = @ - 1]]
    ELSE [moved |-> FALSE, history |-> h]

History_next(h) ==
    IF h.position < Len(h.buf) - 1
    THEN [moved |-> TRUE, history |-> [h EXCEPT !.position = @ + 1]]
    ELSE [moved |-> FALSE, history |-> h]

IsPrefix(a, b) == Len(a) <= Len(b) /\ SubSeq(b, 1, Len(a)) = a

\* search: Some(first candidate the query is a prefix of) as <<candidate>>,
\* None as <<>>.
Suggest_search(sg, query) ==
    LET hits == {i \in 1..Len(sg) : IsPrefix(query, sg[i])}
    IN IF hits = {} THEN <<>>
       ELSE <<sg[CHOOSE i \in hits : \A j \in hits : i <= j]>>

(***************************************************************************)
(* TextEditor (editor/text_editor.rs, editor/builder/text_editor.rs).      *)
(***************************************************************************)
\* TextEditorBuilder::build
TextEditorBuilder_build(mode, suggest) ==
    [kind |-> "TextEditor",
     textbuffer |-> TextBuffer_new,
     history |-> History_default,
     suggest |-> suggest,
     mode |-> mode]

\* TextEditor::handle_event: the match arms in source order.
TextEditor_handle_event(te, event) ==
    IF Matches(event, KeyCode("Enter", ""), {}) THEN
        [te EXCEPT !.history =
            History_insert(@, TextBuffer_to_string_without_cursor(te.textbuffer))]
    ELSE IF Matches(event, KeyCode("Left", ""), {}) THEN
        [te EXCEPT !.textbuffer = TextBuffer_prev(@).tb]
    ELSE IF Matches(event, KeyCode("Right", ""), {}) THEN
        [te EXCEPT !.textbuffer = TextBuffer_next(@).tb]
    ELSE IF Matches(event, KeyCode("Char", "a"), {"CONTROL"}) THEN
        [te EXCEPT !.textbuffer = TextBuffer_to_head(@).tb]
    ELSE IF Matches(event, KeyCode("Char", "e"), {"CONTROL"}) THEN
        [te EXCEPT !.textbuffer = TextBuffer_to_tail(@).tb]
    ELSE IF Matches(event, KeyCode("Backspace", ""), {}) THEN
        [te EXCEPT !.textbuffer = TextBuffer_erase(@).tb]
    ELSE IF Matches(event, KeyCode("Char", "u"), {"CONTROL"}) THEN
        [te EXCEPT !.textbuffer = TextBuffer_erase_all(@).tb]
    ELSE IF Matches(event, KeyCode("Up", ""), {}) THEN
        LET r == History_prev(te.history)
        IN IF r.moved
           THEN [te EXCEPT !.history = r.history,
                           !.textbuffer =
                               TextBuffer_replace(@, Graphemes(History_get(r.history))).tb]
           ELSE te
    ELSE IF Matches(event, KeyCode("Down", ""), {}) THEN
        LET r == History_next(te.history)
        IN IF r.moved
           THEN [te EXCEPT !.history = r.history,
                           !.textbuffer =
                               TextBuffer_replace(@, Graphemes(History_get(r.history))).tb]
           ELSE te
    ELSE IF Matches(event, KeyCode("Tab", ""), {}) THEN
        LET found == Suggest_search(te.suggest,
                                    TextBuffer_to_string_without_cursor(te.textbuffer))
        IN IF found # <<>>
           THEN [te EXCEPT !.textbuffer = TextBuffer_replace(@, Graphemes(found[1])).tb]
           ELSE te
    ELSE IF /\ event.type = "Key"
            /\ event.code.key = "Char"
            /\ event.modifiers \in {{}, {"SHIFT"}}
            /\ event.kind = "Press"
            /\ event.state = {} THEN
        IF te.mode = "Insert"
        THEN [te EXCEPT !.textbuffer = TextBuffer_insert(@, Grapheme(event.code.ch)).tb]
        ELSE [te EXCEPT !.textbuffer = TextBuffer_overwrite(@, Grapheme(event.code.ch)).tb]
    ELSE te

\* Graphemes::width: the sum of the widths.
RECURSIVE Graphemes_width(_)
Graphemes_width(g) ==
    IF g = <<>> THEN 0 ELSE Head(g).width + Graphemes_width(Tail(g))

\* matrixify(width, graphemes): the rows, packed left to right; a grapheme
\* that would exceed the width starts a new row.  `row` is the row being
\* filled and `rows` the rows already closed.
RECURSIVE MatrixifyFrom(_, _, _, _)
MatrixifyFrom(width, g, row, rows) ==
    IF g = <<>> THEN Append(rows, row)
    ELSE IF row # <<>> /\ width < Graphemes_width(row) + Head(g).width
    THEN MatrixifyFrom(width, Tail(g), <<Head(g)>>, Append(rows, row))
    ELSE MatrixifyFrom(width, Tail(g), Append(row, Head(g)), rows)

Matrixify(width, g) == MatrixifyFrom(width, g, <<>>, <<>>)

\* TextBuffer::graphemes(style, cursor_style, mask): the buffer's graphemes,
\* the sentinel included (it is the cell the cursor is drawn on at the
\* tail); styles are not modelled.
TextBuffer_graphemes(t) == t.buf

\* TextEditor::gen_pane: Pane::new(layout, focus row); division by a zero
\* width panics.
TextEditor_gen_pane(label, textbuffer, width) ==
    IF width = 0
    THEN [layout |-> <<>>, focus |-> 0, panic |-> TRUE]
    ELSE [layout |-> Matrixify(width, label \o TextBuffer_graphemes(textbuffer)),
          focus |-> textbuffer.position \div width,
          panic |-> FALSE]

\* TextEditor::reset
TextEditor_reset(te) == [te EXCEPT !.textbuffer = TextBuffer_new]

\* TextEditor::output
TextEditor_output(te) == TextBuffer_to_string_without_cursor(te.textbuffer)

(***************************************************************************)
(* Checkbox and its renderer (core/checkbox/render.rs).  A checkbox is     *)
(* [items, position, picked].                                              *)
(***************************************************************************)
Checkbox_new(items) ==
    [kind |-> "Checkbox", items |-> items, position |-> 0, picked |-> {}]

Checkbox_backward(cb) ==
    IF 0 < cb.position THEN [cb EXCEPT !.position = @ - 1] ELSE cb

Checkbox_forward(cb) ==
    IF cb.position + 1 < Len(cb.items) THEN [cb EXCEPT !.position = @ + 1] ELSE cb

Checkbox_toggle(cb) ==
    IF cb.position \in cb.picked
    THEN [cb EXCEPT !.picked = @ \ {cb.position}]
    ELSE [cb EXCEPT !.picked = @ \cup {cb.position}]

Checkbox_move_to_head(cb) == [cb EXCEPT !.position = 0]

\* Renderer::handle_event of the checkbox.
Checkbox_handle_event(cb, event) ==
    IF Matches(event, KeyCode("Up", ""), {}) THEN Checkbox_backward(cb)
    ELSE IF Matches(event, KeyCode("Down", ""), {}) THEN Checkbox_forward(cb)
    ELSE IF Matches(event, KeyCode("Char", " "), {}) THEN Checkbox_toggle(cb)
    ELSE cb

\* Renderer::postrun of the checkbox.
Checkbox_postrun(cb) == Checkbox_move_to_head(cb)

(***************************************************************************)
(* The panes of the list widgets (core/checkbox/render.rs,                 *)
(* core/listbox/render.rs).  A renderer is [checkbox or listbox, cursor,   *)
(* mark, lines]; strings are sequences of characters and an item is a      *)
(* string.  A pane is [rows, focus, cap], the cap <<>> for None.           *)
(***************************************************************************)
\* " ".repeat(n)
Spaces(n) == [i \in 1..n |-> " "]

\* trim(max_width, graphemes) keeping a grapheme only while the cumulative
\* width stays below max_width.
RECURSIVE Trim_strictly_below(_, _)
Trim_strictly_below(max_width, g) ==
    IF g = <<>> \/ Head(g).width >= max_width THEN <<>>
    ELSE <<Head(g)>> \o Trim_strictly_below(max_width - Head(g).width, Tail(g))

\* trim(max_width, graphemes): the leading graphemes whose cumulative width
\* is at most max_width; the first one that would exceed it is dropped with
\* everything after it.
RECURSIVE Trim(_, _)
Trim(max_width, g) ==
    IF g = <<>> \/ Head(g).width > max_width THEN <<>>
    ELSE <<Head(g)>> \o Trim(max_width - Head(g).width, Tail(g))

\* Pane::new(layout, focus, lines)
Pane_new(layout, focus, lines) == [rows |-> layout, focus |-> focus, cap |-> lines]

\* A listbox is [items, position].
Listbox_new(items) == [kind |-> "Listbox", items |-> items, position |-> 0]

Listbox_backward(lb) ==
    IF 0 < lb.position THEN [lb EXCEPT !.position = @ - 1] ELSE lb

Listbox_forward(lb) ==
    IF lb.position + 1 < Len(lb.items) THEN [lb EXCEPT !.position = @ + 1] ELSE lb

Listbox_move_to_head(lb) == [lb EXCEPT !.position = 0]

\* Renderer::handle_event of the listbox under its default keymap.
Listbox_handle_event(lb, event) ==
    IF Matches(event, KeyCode("Up", ""), {}) THEN Listbox_backward(lb)
    ELSE IF Matches(event, KeyCode("Down", ""), {}) THEN Listbox_forward(lb)
    ELSE lb

\* Renderer::postrun of the listbox leaving the cursor where it is.
Listbox_postrun_keeps_cursor(lb) == lb

\* Renderer::postrun of the listbox.
Listbox_postrun(lb) == Listbox_move_to_head(lb)

\* The closure f of the checkbox's make_pane: "[mark] item", the mark blanked
\* by spaces of its width when the item is not picked.
Checkbox_item_text(r, idx) ==
    IF idx \in r.checkbox.picked
    THEN <<"[", r.mark, "]", " ">> \o r.checkbox.items[idx + 1]
    ELSE <<"[">> \o Spaces(UnicodeWidthChar(r.mark)) \o <<"]", " ">>
         \o r.checkbox.items[idx + 1]

\* The prefix of a row padded by the number of characters of the cursor.
Cursor_prefix_by_chars(cursor, i, position) ==
    IF i = position THEN cursor ELSE Spaces(Len(cursor))

\* The prefix of row i: the cursor on the row at `position`, elsewhere
\* spaces of the cursor's display width.
Cursor_prefix(cursor, i, position) ==
    IF i = position THEN cursor ELSE Spaces(Graphemes_width(Graphemes(cursor)))

\* `matrix` of the checkbox's make_pane: one row per item, untrimmed.
Checkbox_matrix(r) ==
    [k \in 1..Len(r.checkbox.items) |->
        Graphemes(Cursor_prefix(r.cursor, k - 1, r.checkbox.position)
                  \o Checkbox_item_text(r, k - 1))]

\* Renderer::make_pane of the checkbox.
Checkbox_make_pane(r, width) ==
    LET matrix == Checkbox_matrix(r)
        trimed == [k \in 1..Len(matrix) |-> Trim(width, matrix[k])]
    IN Pane_new(trimed, r.checkbox.position, r.lines)

\* `matrix` of the listbox's make_pane.
Listbox_matrix(r) ==
    [k \in 1..Len(r.listbox.items) |->
        Graphemes(Cursor_prefix(r.cursor, k - 1, r.listbox.position)
                  \o r.listbox.items[k])]

\* Renderer::make_pane of the listbox.
Listbox_make_pane(r, width) ==
    LET matrix == Listbox_matrix(r)
        trimed == [k \in 1..Len(matrix) |-> Trim(width, matrix[k])]
    IN Pane_new(trimed, r.listbox.position, r.lines)

(***************************************************************************)
(* The select State (select/state.rs).  A state is [len, position,         *)
(* init_move_down_lines, title_lines, selected_cursor_position, window]:   *)
(* the number of items and the position of its select box, the lines above *)
(* the box, the cursor's line inside the box, and the window as <<>> for   *)
(* None or <<n>> for Some(n).  Every operation yields the set of outcomes  *)
(* [outcome, value, state, wrapped] the builds of the program can produce: *)
(* an integer underflow panics where overflow checks are compiled in and   *)
(* wraps around where they are not.                                        *)
(***************************************************************************)
U16 == 65536

\* a - b on u16.
Sub16(a, b) ==
    IF a >= b
    THEN {[v |-> a - b, wrapped |-> FALSE, panic |-> FALSE]}
    ELSE {[v |-> 0, wrapped |-> FALSE, panic |-> TRUE],
          [v |-> a - b + U16, wrapped |-> TRUE, panic |-> FALSE]}

Min(a, b) == IF a <= b THEN a ELSE b

\* The lines above the select box: init_move_down_lines + num_lines(title).
State_used_space(st) == st.init_move_down_lines + st.title_lines

\* State::selectbox_lines on a select box of len items, the terminal having
\* `rows` rows.
State_selectbox_lines(st, len, rows) ==
    { [outcome |-> IF d.panic THEN "panic" ELSE "ok",
       value |-> IF d.panic THEN 0
                 ELSE Min(d.v, Min(IF st.window = <<>> THEN d.v ELSE st.window[1], len)),
       state |-> st,
       wrapped |-> d.wrapped] : d \in Sub16(rows, State_used_space(st)) }

\* State::move_down
State_move_down(st, rows) ==
    { IF l.outcome = "panic" THEN l
      ELSE IF l.value > 0
      THEN LET limit == l.value - 1
           IN [l EXCEPT !.value = 0,
                        !.state.selected_cursor_position =
                            IF @ >= limit THEN limit ELSE @ + 1]
      ELSE [l EXCEPT !.value = 0] : l \in State_selectbox_lines(st, st.len, rows) }

\* State::move_tail
State_move_tail(st, rows) ==
    UNION { IF l.outcome = "panic" THEN {l}
            ELSE { [outcome |-> IF d.panic THEN "panic" ELSE "ok",
                    value |-> 0,
                    state |-> IF d.panic THEN st
                              ELSE [st EXCEPT !.selected_cursor_position = d.v],
                    wrapped |-> l.wrapped \/ d.wrapped] : d \in Sub16(l.value, 1) }
            : l \in State_selectbox_lines(st, st.len, rows) }

\* State::move_up
State_move_up(st) ==
    {[outcome |-> "ok", value |-> 0, wrapped |-> FALSE,
      state |-> [st EXCEPT !.selected_cursor_position = IF @ = 0 THEN 0 ELSE @ - 1]]}

\* State::move_head
State_move_head(st) ==
    {[outcome |-> "ok", value |-> 0, wrapped |-> FALSE,
      state |-> [st EXCEPT !.selected_cursor_position = 0]]}

\* SelectBox: stepping and jumping of the position, clamped to the items.
SelectBox_prev(st) == [st EXCEPT !.position = IF @ = 0 THEN 0 ELSE @ - 1]
SelectBox_next(st) == [st EXCEPT !.position = IF @ + 1 < st.len THEN @ + 1 ELSE @]
SelectBox_to_head(st) == [st EXCEPT !.position = 0]
SelectBox_to_tail(st) == [st EXCEPT !.position = IF st.len = 0 THEN 0 ELSE st.len - 1]

\* State::render drawing from the position of the select box, the cursor's
\* line not subtracted.
State_render_from_position(st, rows) ==
    IF st.len = 0
    THEN {[outcome |-> "ok", value |-> <<>>, state |-> st, wrapped |-> FALSE]}
    ELSE IF rows <= State_used_space(st)
    THEN {[outcome |-> "err", value |-> <<>>, state |-> st, wrapped |-> FALSE]}
    ELSE UNION {
        IF l.outcome = "panic"
        THEN {[outcome |-> "panic", value |-> <<>>, state |-> st, wrapped |-> FALSE]}
        ELSE { [outcome |-> IF d.panic THEN "panic" ELSE "ok",
                value |-> IF d.panic THEN <<>> ELSE <<st.position, st.position + d.v>>,
                state |-> st,
                wrapped |-> d.wrapped] : d \in Sub16(l.value, st.selected_cursor_position) }
        : l \in State_selectbox_lines(st, st.len, rows) }

\* State::render: the value is the range <<from, to>> of the items drawn,
\* <<>> when nothing is drawn.
State_render(st, rows) ==
    IF st.len = 0
    THEN {[outcome |-> "ok", value |-> <<>>, state |-> st, wrapped |-> FALSE]}
    ELSE IF rows <= State_used_space(st)
    THEN {[outcome |-> "err", value |-> <<>>, state |-> st, wrapped |-> FALSE]}
    ELSE UNION {
        IF l.outcome = "panic" \/ st.position < st.selected_cursor_position
        THEN {[outcome |-> "panic", value |-> <<>>, state |-> st, wrapped |-> FALSE]}
        ELSE { [outcome |-> IF d.panic THEN "panic" ELSE "ok",
                value |-> IF d.panic THEN <<>>
                          ELSE <<st.position - st.selected_cursor_position,
                                 st.position + d.v>>,
                state |-> st,
                wrapped |-> d.wrapped] : d \in Sub16(l.value, st.selected_cursor_position) }
        : l \in State_selectbox_lines(st, st.len, rows) }

(***************************************************************************)
(* Pane and the diff renderer (Terminal).  A pane is [rows, focus, cap]:   *)
(* its rows, the focus row and the visible-line cap, <<>> for none.  A     *)
(* terminal is [frame, width]: the lines of the frame it drew last and the *)
(* width it drew them at.  A draw yields the terminal afterwards and the   *)
(* operations it issued, each [op, line].                                  *)
(***************************************************************************)
Max(a, b) == IF a >= b THEN a ELSE b

\* The rows of a pane that are displayed: all of them within the cap, else
\* the window of cap rows with lower bound max(0, focus - cap + 1).
Pane_window(p) ==
    IF p.cap = <<>> \/ Len(p.rows) <= p.cap[1] THEN p.rows
    ELSE LET lower == Max(0, p.focus - p.cap[1] + 1)
         IN SubSeq(p.rows, lower + 1, lower + p.cap[1])

\* The lines of a frame: the windows of the panes, stacked in order.
RECURSIVE Frame(_)
Frame(panes) ==
    IF panes = <<>> THEN <<>> ELSE Pane_window(Head(panes)) \o Frame(Tail(panes))

\* Terminal::start_session: nothing drawn yet.
Terminal_start_session == [frame |-> <<>>, width |-> 0]

\* The operations of a draw from line k on: a line that is new, differs
\* from the line drawn before or is invalidated is cleared and rewritten; a
\* stale trailing line is cleared; anything else is left untouched.
RECURSIVE DrawOpsFrom(_, _, _, _)
DrawOpsFrom(k, old, new, invalid) ==
    IF k > Len(old) /\ k > Len(new) THEN <<>>
    ELSE (IF k > Len(new) THEN <<[op |-> "Clear", line |-> k]>>
          ELSE IF invalid \/ k > Len(old) \/ old[k] # new[k]
          THEN <<[op |-> "Clear", line |-> k], [op |-> "Write", line |-> k]>>
          ELSE <<>>)
         \o DrawOpsFrom(k + 1, old, new, invalid)

\* A draw that clears and rewrites every line, whatever was drawn before.
Terminal_draw_rewrite_all(term, panes, width, scrolled) ==
    LET new == Frame(panes)
    IN [term |-> [frame |-> new, width |-> width],
        ops |-> DrawOpsFrom(1, term.frame, new, TRUE)
                \o <<[op |-> "MoveTo", line |-> 0]>>]

\* Terminal::draw(panes) at terminal width `width`; `scrolled` tells that
\* the terminal scrolled since the last draw.  A width change or a scroll
\* invalidates every line drawn before.
Terminal_draw(term, panes, width, scrolled) ==
    LET new == Frame(panes)
    IN [term |-> [frame |-> new, width |-> width],
        ops |-> DrawOpsFrom(1, term.frame, new, scrolled \/ width # term.width)
                \o <<[op |-> "MoveTo", line |-> 0]>>]

(***************************************************************************)
(* The text widget (title, error message): [text, init], `init` being the  *)
(* state it was built with.  It reacts to no event.                        *)
(***************************************************************************)
Text_new(text) == [kind |-> "Text", text |-> text, init |-> text]

(***************************************************************************)
(* The validator of the password preset (preset/password.rs 51-58): the    *)
(* two closures the caller configures, here a minimum length and a message *)
(* that quotes the rejected text.                                          *)
(***************************************************************************)
Validator_validate(text) == Len(text) >= 2

Validator_error_message(text) == <<"too short: ">> \o text

(***************************************************************************)
(* The Component contract: dispatch on the widget behind the trait object. *)
(***************************************************************************)
Component_handle_event(c, event) ==
    IF c.kind = "TextEditor" THEN TextEditor_handle_event(c, event)
    ELSE IF c.kind = "Checkbox" THEN Checkbox_handle_event(c, event)
    ELSE IF c.kind = "Listbox" THEN Listbox_handle_event(c, event)
    ELSE c

Component_postrun(c) ==
    IF c.kind = "TextEditor" THEN TextEditor_reset(c)
    ELSE IF c.kind = "Checkbox" THEN Checkbox_postrun(c)
    ELSE IF c.kind = "Listbox" THEN Listbox_postrun(c)
    ELSE c


(***************************************************************************)
(* State.                                                                  *)
(***************************************************************************)
VARIABLES
    tb,            \* the TextBuffer driven by the harness
    tbPre,         \* the buffer as it was when the last operation was called
    tbOp,          \* the last operation called on tb
    tbArg,         \* its argument: <<g>> for insert/overwrite, new for replace
    tbRet,         \* the pair the last operation returned
    tbPanic,       \* whether any operation panicked
    pc,            \* where Prompt::run is
    idx,           \* index of the component a for-loop of run is at
    ev,            \* the event read last (NoEvent before the first read)
    finalizable,   \* the local `finalizable` of the loop body
    components,    \* Prompt.components
    rawMode,       \* terminal: raw mode enabled
    cursorShown,   \* terminal: cursor visible
    screenCleared, \* terminal: ONCE has cleared the screen
    deferArmed,    \* the defer! guard of run is registered
    restoreOps,    \* the commands the defer! block has issued
    result,        \* what run returned ("running" until it returns)
    retval,        \* `ret`, the value the output extractor produced
    steps,         \* log: the steps run has taken since the last event read
    evalLog,       \* log: the evaluator's last call, <<[ev, ok, value]>>
    outCalls,      \* log: number of calls of the output extractor
    outSeen,       \* log: what the extractor was given, <<[components, postrunLog]>>
    postrunLog,    \* log: indices of the components postrun has run on
    session,       \* what the Prompt was built from and the widths its terminal
                   \* may have: [preset, validator, widths]
    size,          \* the local `size` of run: <<>> before the first query, then
                   \* <<width>>
    widthLog,      \* log: the width queried before the last query, the width
                   \* queried last, and the widths passed to make_pane since,
                   \* [previous, queried, passed]
    keys,          \* log: the events read, for as long as they follow Scenario
    fnOp,          \* function harness: the function called ("idle" before the call)
    fnArgs,        \* function harness: its arguments
    fnRet          \* function harness: what it returned

tbVars == <<tb, tbPre, tbOp, tbArg, tbRet, tbPanic>>
fnVars == <<fnOp, fnArgs, fnRet>>
runVars == <<pc, idx, ev, finalizable, components, rawMode, cursorShown, screenCleared,
             deferArmed, restoreOps, result, retval, steps, evalLog, outCalls, outSeen,
             postrunLog, session, keys, size, widthLog>>
vars == <<tb, tbPre, tbOp, tbArg, tbRet, tbPanic, pc, idx, ev, finalizable, components,
          rawMode, cursorShown, screenCleared, deferArmed, restoreOps, result, retval,
          steps, evalLog, outCalls, outSeen, postrunLog, session, keys, size, widthLog,
          fnOp, fnArgs, fnRet>>

(***************************************************************************)
(* The text-buffer harness: TextBuffer::new() followed by any sequence of  *)
(* operations.                                                             *)
(***************************************************************************)
TBInit ==
    /\ tb = TextBuffer_new
    /\ tbPre = TextBuffer_new
    /\ tbOp = "new"
    /\ tbArg = <<>>
    /\ tbRet = <<>>
    /\ tbPanic = FALSE

\* Records the call `op(arg)` whose outcome is r.
TBCall(op, arg, r) ==
    /\ tbPre' = tb
    /\ tbOp' = op
    /\ tbArg' = arg
    /\ tb' = r.tb
    /\ tbRet' = r.ret
    /\ tbPanic' = (tbPanic \/ r.panic)
    /\ UNCHANGED <<runVars, fnVars>>

TBInsert ==
    \E c \in TBChars :
        /\ Len(tb.buf) < MaxLen
        /\ TBCall("insert", <<Grapheme(c)>>, TextBuffer_insert(tb, Grapheme(c)))

TBOverwrite ==
    \E c \in TBChars :
        /\ TextBuffer_is_tail(tb) => Len(tb.buf) < MaxLen
        /\ TBCall("overwrite", <<Grapheme(c)>>, TextBuffer_overwrite(tb, Grapheme(c)))

TBErase == TBCall("erase", <<>>, TextBuffer_erase(tb))

TBToHead == TBCall("to_head", <<>>, TextBuffer_to_head(tb))

TBToTail == TBCall("to_tail", <<>>, TextBuffer_to_tail(tb))

TBStepLeft == TBCall("prev", <<>>, TextBuffer_prev(tb))

TBStepRight == TBCall("next", <<>>, TextBuffer_next(tb))

TBReplace ==
    \E new \in SeqsUpTo({Grapheme(c) : c \in TBChars}, MaxNew) :
        TBCall("replace", new, TextBuffer_replace(tb, new))

(***************************************************************************)
(* The function harness: one call of a function on arguments drawn from    *)
(* bounded sets.  Under the other specifications it stays idle.            *)
(***************************************************************************)
FnIdle ==
    /\ fnOp = "none"
    /\ fnArgs = <<>>
    /\ fnRet = <<>>

\* Records the call op(fnArgs) returning ret.
FnCall(op, ret) ==
    /\ fnOp = "idle"
    /\ fnOp' = op
    /\ fnRet' = ret
    /\ UNCHANGED <<fnArgs, tbVars, runVars>>

\* Graphemes over "a" and "d"; the fields of Grapheme are public, so a
\* grapheme may carry any width.
SeqGraphemes == {Grapheme("a"), Grapheme("d"), [ch |-> "a", width |-> 2]}

LCPInit ==
    /\ fnOp = "idle"
    /\ fnArgs \in SeqsUpTo(SeqGraphemes, MaxSeq) \X SeqsUpTo(SeqGraphemes, MaxSeq)
    /\ fnRet = <<>>

LCPCall ==
    FnCall("longest_common_prefix",
           <<Graphemes_longest_common_prefix(fnArgs[1], fnArgs[2])>>)

\* The pane of a text editor: a label, a text buffer in a state its
\* operations produce (sentinel last, cursor within), and a terminal wide
\* enough for every grapheme of the line.
PaneChars == {"a", "W"}

GenPaneInit ==
    /\ fnOp = "idle"
    /\ fnRet = <<>>
    /\ \E label \in SeqsUpTo({Grapheme(">")}, MaxLabel),
          text \in SeqsUpTo({Grapheme(c) : c \in PaneChars}, MaxSeq),
          width \in 1..MaxWidth :
          \E position \in 0..Len(text) :
              /\ \A i \in 1..Len(text) : text[i].width <= width
              /\ fnArgs = [label |-> label,
                           textbuffer |-> [buf |-> Append(text, Sentinel),
                                           position |-> position],
                           width |-> width]

GenPaneCall ==
    FnCall("gen_pane",
           <<TextEditor_gen_pane(fnArgs.label, fnArgs.textbuffer, fnArgs.width)>>)

\* A select State and a terminal: the cursor's line is at most the position
\* of the select box, and the terminal may have any number of rows, fewer
\* than the lines above the box included.
SelectInit ==
    /\ fnOp = "idle"
    /\ fnRet = <<>>
    /\ \E len \in 0..MaxItems, init \in 0..MaxRows, title \in 0..1, rows \in 0..MaxRows,
          window \in {<<>>} \cup {<<n>> : n \in 1..MaxItems} :
          \E position \in 0..(IF len = 0 THEN 0 ELSE len - 1) :
              \E cursor \in 0..position :
                  fnArgs = [state |-> [len |-> len,
                                       position |-> position,
                                       init_move_down_lines |-> init,
                                       title_lines |-> title,
                                       selected_cursor_position |-> cursor,
                                       window |-> window],
                            rows |-> rows]

SelectRender ==
    \E o \in State_render(fnArgs.state, fnArgs.rows) : FnCall("render", <<o>>)

SelectMoveDown ==
    \E o \in State_move_down(fnArgs.state, fnArgs.rows) : FnCall("move_down", <<o>>)

SelectMoveTail ==
    \E o \in State_move_tail(fnArgs.state, fnArgs.rows) : FnCall("move_tail", <<o>>)

SelectSelectboxLines ==
    \E o \in State_selectbox_lines(fnArgs.state, fnArgs.state.len, fnArgs.rows) :
        FnCall("selectbox_lines", <<o>>)

(***************************************************************************)
(* An editing session: one TextEditor in either mode, as its builder built *)
(* it or as an earlier prompt that read 'h' and Enter left it, handed one  *)
(* event after the other; the session ends before Enter, so the history    *)
(* does not grow.  The harness variables hold the editor (fnArgs), the     *)
(* last operation (fnOp) and, for handle_event, the event and the editor   *)
(* as it was before (fnRet).  The text is kept within MaxText + 1          *)
(* graphemes.                                                              *)
(***************************************************************************)
\* The candidates of the editor's Suggest.
EditorSuggestions == << <<"h", "i">> >>

\* The events the editor is handed: every bound key, character presses
\* with and without Shift, and events no arm matches.
EditorEvents ==
    { Press(KeyCode("Char", "h"), {}),
      Press(KeyCode("Char", "I"), {"SHIFT"}),
      Press(KeyCode("Left", ""), {}),
      Press(KeyCode("Right", ""), {}),
      Press(KeyCode("Char", "a"), {"CONTROL"}),
      Press(KeyCode("Char", "e"), {"CONTROL"}),
      Press(KeyCode("Backspace", ""), {}),
      Press(KeyCode("Char", "u"), {"CONTROL"}),
      Press(KeyCode("Up", ""), {}),
      Press(KeyCode("Down", ""), {}),
      Press(KeyCode("Tab", ""), {}),
      Press(KeyCode("Char", "h"), {"ALT"}),
      Press(KeyCode("Char", "u"), {"CONTROL", "SHIFT"}),
      KeyEvent(KeyCode("Char", "h"), {}, "Release", {}),
      KeyEvent(KeyCode("Char", "h"), {}, "Repeat", {}),
      ResizeEvent }

EditorInit ==
    /\ fnOp = "build"
    /\ fnRet = <<>>
    /\ \E mode \in {"Insert", "Overwrite"} :
          LET built == TextEditorBuilder_build(mode, EditorSuggestions)
              typed == TextEditor_handle_event(built, Press(KeyCode("Char", "h"), {}))
          IN fnArgs \in {built, TextEditor_handle_event(typed, EnterPress)}

EditorHandleEvent ==
    /\ fnOp \in {"build", "handle_event"}
    /\ \E e \in EditorEvents :
          LET after == TextEditor_handle_event(fnArgs, e)
          IN /\ Len(after.textbuffer.buf) <= MaxText + 2
             /\ fnOp' = "handle_event"
             /\ fnRet' = <<[event |-> e, before |-> fnArgs]>>
             /\ fnArgs' = after
    /\ UNCHANGED <<tbVars, runVars>>

(***************************************************************************)
(* The pane of a list widget: a checkbox or listbox renderer in a state    *)
(* its operations produce (cursor on an item, picked indexes among the     *)
(* items), a visible cursor glyph of display width 2, a mark, and a        *)
(* terminal of any width, 0 included; and a grapheme sequence to trim.     *)
(***************************************************************************)
ItemTexts == {<<"a">>, <<"W", "b">>}

CursorGlyphs == {<<">", " ">>, <<"W">>}

Marks == {"x", "W"}

\* Renderer.lines
ListLines == {<<>>, <<2>>}

\* Terminal widths: none, narrower than the glyph, and widths at which the
\* rows of a listbox and of a checkbox fit.
ListWidths == {0, 1, 3, 4, 7, 9}

\* Graphemes to trim: narrow, wide and zero-width ones.
TrimGraphemes == {Grapheme("a"), Grapheme("W"), Grapheme("z")}

ListPaneInit ==
    /\ fnOp = "idle"
    /\ fnRet = <<>>
    /\ \/ \E items \in SeqsUpTo(ItemTexts, MaxItems), cursor \in CursorGlyphs,
             mark \in Marks, width \in ListWidths, lines \in ListLines :
             \E position \in 0..Max(0, Len(items) - 1) :
                 \E picked \in SUBSET (0..(Len(items) - 1)) :
                     fnArgs = [kind |-> "Checkbox",
                               renderer |-> [checkbox |-> [kind |-> "Checkbox",
                                                           items |-> items,
                                                           position |-> position,
                                                           picked |-> picked],
                                             cursor |-> cursor,
                                             mark |-> mark,
                                             lines |-> lines],
                               width |-> width]
       \/ \E items \in SeqsUpTo(ItemTexts, MaxItems), cursor \in CursorGlyphs,
             width \in ListWidths, lines \in ListLines :
             \E position \in 0..Max(0, Len(items) - 1) :
                 fnArgs = [kind |-> "Listbox",
                           renderer |-> [listbox |-> [kind |-> "Listbox",
                                                      items |-> items,
                                                      position |-> position],
                                         cursor |-> cursor,
                                         lines |-> lines],
                           width |-> width]
       \/ \E g \in SeqsUpTo(TrimGraphemes, MaxSeq) :
             \E max_width \in 0..(Graphemes_width(g) + 1) :
                 fnArgs = [kind |-> "Graphemes", graphemes |-> g, width |-> max_width]

CheckboxMakePane ==
    /\ fnArgs.kind = "Checkbox"
    /\ FnCall("make_pane", <<Checkbox_make_pane(fnArgs.renderer, fnArgs.width)>>)

ListboxMakePane ==
    /\ fnArgs.kind = "Listbox"
    /\ FnCall("make_pane", <<Listbox_make_pane(fnArgs.renderer, fnArgs.width)>>)

TrimCall ==
    /\ fnArgs.kind = "Graphemes"
    /\ FnCall("trim", <<Trim(fnArgs.width, fnArgs.graphemes)>>)

(***************************************************************************)
(* A select session: one State on a terminal of fixed size, driven by the  *)
(* navigation keys.  Each key moves the select box and then the cursor's   *)
(* line; a redraw renders the State.  The harness variables hold the State *)
(* (fnArgs), the last operation (fnOp) and its outcome (fnRet); a panic    *)
(* ends the session, and a session is not followed beyond an underflow     *)
(* that wrapped.                                                           *)
(***************************************************************************)
NavInit ==
    /\ fnOp = "new"
    /\ fnRet = <<>>
    /\ \E len \in 1..MaxList, init \in 0..1, title \in 0..1, rows \in 0..(MaxCap + 2),
          window \in {<<>>} \cup {<<n>> : n \in 1..MaxCap} :
          fnArgs = [state |-> [len |-> len,
                               position |-> 0,
                               init_move_down_lines |-> init,
                               title_lines |-> title,
                               selected_cursor_position |-> 0,
                               window |-> window],
                    rows |-> rows]

NavStep(op, outcomes) ==
    /\ fnOp # "none"
    /\ IF fnRet = <<>> THEN TRUE ELSE fnRet[1].outcome # "panic" /\ ~fnRet[1].wrapped
    /\ \E o \in outcomes :
          /\ fnOp' = op
          /\ fnRet' = <<o>>
          /\ fnArgs' = [fnArgs EXCEPT !.state = o.state]
    /\ UNCHANGED <<tbVars, runVars>>

NavUp == NavStep("up", State_move_up(SelectBox_prev(fnArgs.state)))

NavDown == NavStep("down", State_move_down(SelectBox_next(fnArgs.state), fnArgs.rows))

NavHead == NavStep("head", State_move_head(SelectBox_to_head(fnArgs.state)))

NavTail == NavStep("tail", State_move_tail(SelectBox_to_tail(fnArgs.state), fnArgs.rows))

NavRender == NavStep("render", State_render(fnArgs.state, fnArgs.rows))

\* The terminal is resized between two calls: terminal::size() is read
\* anew by every operation, the State keeps its cursor line.
NavResize ==
    /\ fnOp # "none"
    /\ IF fnRet = <<>> THEN TRUE ELSE fnRet[1].outcome # "panic" /\ ~fnRet[1].wrapped
    /\ \E rows \in 0..(MaxCap + 2) :
          /\ rows # fnArgs.rows
          /\ fnArgs' = [fnArgs EXCEPT !.rows = rows]
    /\ fnOp' = "resize"
    /\ fnRet' = <<>>
    /\ UNCHANGED <<tbVars, runVars>>

(***************************************************************************)
(* A drawing session: one Terminal that draws two stacked panes, a title   *)
(* without a cap and a widget pane with or without one, again and again.   *)
(* From one draw to the next the panes stay as they are, or one of them is *)
(* edited, or the terminal is resized; the terminal may scroll between two *)
(* draws.  The harness variables hold the terminal, the panes              *)
(* and width of its last draw and the scroll flag (fnArgs), the last       *)
(* operation (fnOp) and, for a draw, its operations and whether its input  *)
(* was identical to that of the draw before (fnRet).                       *)
(***************************************************************************)
RowTexts == {"a", "b"}

PaneCaps == {<<>>, <<1>>}

TerminalWidths == {2, 3}

DrawInit ==
    /\ fnOp = "start_session"
    /\ fnRet = <<>>
    /\ \E cap \in PaneCaps, width \in TerminalWidths :
          fnArgs = [term |-> Terminal_start_session,
                    panes |-> << [rows |-> <<>>, focus |-> 0, cap |-> <<>>],
                                 [rows |-> <<>>, focus |-> 0, cap |-> cap] >>,
                    width |-> width,
                    drawn |-> FALSE,
                    scrolled |-> FALSE]

\* The terminal draws `panes` at `width`.
DrawCall(panes, width) ==
    /\ fnOp \in {"start_session", "draw", "scroll"}
    /\ LET r == Terminal_draw(fnArgs.term, panes, width, fnArgs.scrolled)
       IN /\ fnOp' = "draw"
          /\ fnRet' = <<[ops |-> r.ops,
                         identical |-> /\ fnArgs.drawn
                                       /\ panes = fnArgs.panes
                                       /\ width = fnArgs.width
                                       /\ ~fnArgs.scrolled]>>
          /\ fnArgs' = [term |-> r.term, panes |-> panes, width |-> width,
                        drawn |-> TRUE, scrolled |-> FALSE]
    /\ UNCHANGED <<tbVars, runVars>>

\* The panes a widget may hand over after one change to pane p.
Pane_edits(p) ==
    (IF Len(p.rows) < MaxPaneRows
     THEN {[p EXCEPT !.rows = Append(@, c)] : c \in RowTexts}
     ELSE {})
    \cup (IF Len(p.rows) > 0
          THEN {[p EXCEPT !.rows = SubSeq(@, 1, Len(@) - 1),
                          !.focus = Min(@, Max(0, Len(p.rows) - 2))]}
          ELSE {})
    \cup {[p EXCEPT !.rows[j] = c] : j \in 1..Len(p.rows), c \in RowTexts}
    \cup {[p EXCEPT !.focus = f] : f \in 0..Max(0, Len(p.rows) - 1)}

DrawAgain == DrawCall(fnArgs.panes, fnArgs.width)

DrawEdited ==
    \E i \in 1..Len(fnArgs.panes) :
        \E p \in Pane_edits(fnArgs.panes[i]) :
            DrawCall([fnArgs.panes EXCEPT ![i] = p], fnArgs.width)

DrawResized ==
    \E width \in TerminalWidths \ {fnArgs.width} : DrawCall(fnArgs.panes, width)

\* The terminal scrolls between two draws.
TermScroll ==
    /\ fnOp = "draw"
    /\ ~fnArgs.scrolled
    /\ fnOp' = "scroll"
    /\ fnRet' = <<>>
    /\ fnArgs' = [fnArgs EXCEPT !.scrolled = TRUE]
    /\ UNCHANGED <<tbVars, runVars>>

(***************************************************************************)
(* Prompt::run (lib.rs).  The session is a Prompt over a text editor and a *)
(* checkbox, with a caller-supplied evaluator and output extractor: the    *)
(* evaluator may return Ok(true), Ok(false) or Err, the extractor Ok or    *)
(* Err of the component states it is given.                                *)
(***************************************************************************)
\* The items of the session's checkbox.
CheckboxItems == <<"x", "y">>

\* The candidates of the session's Suggest.
Suggestions == << <<"i">>, <<"h", "i">> >>

\* The events the terminal delivers.
Events ==
    { EnterPress,
      CtrlC,
      Press(KeyCode("Char", "h"), {}),
      Press(KeyCode("Char", "i"), {}),
      Press(KeyCode("Char", "h"), {"SHIFT"}),
      Press(KeyCode("Left", ""), {}),
      Press(KeyCode("Right", ""), {}),
      Press(KeyCode("Char", "a"), {"CONTROL"}),
      Press(KeyCode("Char", "e"), {"CONTROL"}),
      Press(KeyCode("Backspace", ""), {}),
      Press(KeyCode("Char", "u"), {"CONTROL"}),
      Press(KeyCode("Up", ""), {}),
      Press(KeyCode("Down", ""), {}),
      Press(KeyCode("Tab", ""), {}),
      KeyEvent(KeyCode("Enter", ""), {}, "Release", {}),
      KeyEvent(KeyCode("Enter", ""), {}, "Press", {"CAPS_LOCK"}),
      KeyEvent(KeyCode("Char", "c"), {"CONTROL"}, "Repeat", {}),
      Press(KeyCode("Char", "h"), {"ALT"}),
      ResizeEvent }

\* The events the terminal delivers to a password session.
PasswordEvents ==
    { EnterPress,
      CtrlC,
      Press(KeyCode("Char", "h"), {}),
      Press(KeyCode("Char", "i"), {}),
      Press(KeyCode("Left", ""), {}),
      Press(KeyCode("Backspace", ""), {}),
      KeyEvent(KeyCode("Enter", ""), {}, "Release", {}) }

\* The events the terminal delivers to a form session: the keys that end
\* the loop, keys that move the widgets, and events no pattern matches.
FormEvents ==
    { EnterPress,
      CtrlC,
      Press(KeyCode("Char", "h"), {}),
      Press(KeyCode("Left", ""), {}),
      Press(KeyCode("Down", ""), {}),
      Press(KeyCode("Up", ""), {}),
      KeyEvent(KeyCode("Enter", ""), {}, "Release", {}),
      KeyEvent(KeyCode("Char", "c"), {"CONTROL"}, "Repeat", {}),
      Press(KeyCode("Char", "h"), {"ALT"}),
      Press(KeyCode("Char", "c"), {"CONTROL", "SHIFT"}),
      Press(KeyCode("Enter", ""), {"SHIFT"}),
      ResizeEvent }

\* The presets whose Prompt is a title over one viewer with a cursor, an
\* evaluator that always returns true and an extractor of the viewer's
\* get().
SelectionPresets == {"select", "tree", "json"}

\* The events the terminal delivers to a session of a selection preset.
SelectionEvents ==
    { EnterPress,
      CtrlC,
      Press(KeyCode("Down", ""), {}),
      Press(KeyCode("Up", ""), {}),
      KeyEvent(KeyCode("Enter", ""), {}, "Release", {}),
      ResizeEvent }

SessionEvents ==
    IF session.preset = "password" THEN PasswordEvents
    ELSE IF session.preset = "form" THEN FormEvents
    ELSE IF session.preset \in SelectionPresets THEN SelectionEvents
    ELSE Events

\* Longest text the editor of the session may hold: a password session has
\* room for one grapheme more, so that a text the validator accepts fits.
TextCap == IF session.preset = "password" THEN MaxText + 1 ELSE MaxText

\* The key presses 'h', 'i', Enter.
Scenario ==
    << Press(KeyCode("Char", "h"), {}), Press(KeyCode("Char", "i"), {}), EnterPress >>

\* The log of the events read after e is read: it grows while the events
\* read are those of Scenario in order, and is <<NoEvent>> from the first
\* event that departs from it.
Track(log, e) ==
    IF log # <<NoEvent>> /\ Len(log) < Len(Scenario) /\ e = Scenario[Len(log) + 1]
    THEN Append(log, e)
    ELSE <<NoEvent>>

Step(op, arg) == [op |-> op, arg |-> arg]

NumComponents == Len(components)

\* The event keeps the session within the bounds: the editor's text within
\* MaxText and the history within MaxHist inserted texts.
Admissible(e) ==
    \A i \in 1..NumComponents :
        components[i].kind = "TextEditor" =>
            LET after == TextEditor_handle_event(components[i], e)
            IN /\ Len(after.textbuffer.buf) <= TextCap + 1
               /\ Len(after.history.buf) <= MaxHist + 1

RunInit ==
    /\ pc = "enable_raw_mode"
    /\ idx = 0
    /\ ev = NoEvent
    /\ finalizable = FALSE
    /\ \E mode \in {"Insert", "Overwrite"} :
           components = << TextEditorBuilder_build(mode, Suggestions),
                           Checkbox_new(CheckboxItems) >>
    /\ rawMode = FALSE
    /\ cursorShown = TRUE
    /\ screenCleared = FALSE
    /\ deferArmed = FALSE
    /\ restoreOps = <<>>
    /\ result = "running"
    /\ retval = <<>>
    /\ steps = <<>>
    /\ evalLog = <<>>
    /\ outCalls = 0
    /\ outSeen = <<>>
    /\ postrunLog = <<>>
    /\ session = [preset |-> "custom", validator |-> FALSE, widths |-> {MaxWidth}]
    /\ keys = <<>>
    /\ size = <<>>
    /\ widthLog = [previous |-> <<>>, queried |-> <<>>, passed |-> <<>>]

\* The items of the form's listbox.
ListboxItems == <<"p", "q">>

\* A form: a custom Prompt over a text editor, a checkbox and a listbox, on
\* a terminal that may be resized between two size queries.
FormInit ==
    /\ pc = "enable_raw_mode"
    /\ idx = 0
    /\ ev = NoEvent
    /\ finalizable = FALSE
    /\ \E mode \in {"Insert", "Overwrite"} :
           components = << TextEditorBuilder_build(mode, Suggestions),
                           Checkbox_new(CheckboxItems),
                           Listbox_new(ListboxItems) >>
    /\ rawMode = FALSE
    /\ cursorShown = TRUE
    /\ screenCleared = FALSE
    /\ deferArmed = FALSE
    /\ restoreOps = <<>>
    /\ result = "running"
    /\ retval = <<>>
    /\ steps = <<>>
    /\ evalLog = <<>>
    /\ outCalls = 0
    /\ outSeen = <<>>
    /\ postrunLog = <<>>
    /\ session = [preset |-> "form", validator |-> FALSE, widths |-> TerminalWidths]
    /\ keys = <<>>
    /\ size = <<>>
    /\ widthLog = [previous |-> <<>>, queried |-> <<>>, passed |-> <<>>]

\* The items, tree nodes or JSON rows of a selection preset's viewer, in
\* display order.
ViewerItems == <<"p", "q", "r">>

\* Select::prompt, Tree::prompt and Json::prompt: a Prompt over a title and
\* a viewer whose cursor starts on the first row.
SelectionInit ==
    /\ pc = "enable_raw_mode"
    /\ idx = 0
    /\ ev = NoEvent
    /\ finalizable = FALSE
    /\ components = << Text_new(<<"title">>), Listbox_new(ViewerItems) >>
    /\ rawMode = FALSE
    /\ cursorShown = TRUE
    /\ screenCleared = FALSE
    /\ deferArmed = FALSE
    /\ restoreOps = <<>>
    /\ result = "running"
    /\ retval = <<>>
    /\ steps = <<>>
    /\ evalLog = <<>>
    /\ outCalls = 0
    /\ outSeen = <<>>
    /\ postrunLog = <<>>
    /\ \E preset \in SelectionPresets :
          session = [preset |-> preset, validator |-> FALSE, widths |-> TerminalWidths]
    /\ keys = <<>>
    /\ size = <<>>
    /\ widthLog = [previous |-> <<>>, queried |-> <<>>, passed |-> <<>>]

\* Password::prompt (preset/password.rs 60-67): a Prompt over a title, a text
\* editor and an error message, with or without a validator.
PasswordInit ==
    /\ pc = "enable_raw_mode"
    /\ idx = 0
    /\ ev = NoEvent
    /\ finalizable = FALSE
    /\ \E mode \in {"Insert", "Overwrite"} :
           components = << Text_new(<<"title">>),
                           TextEditorBuilder_build(mode, <<>>),
                           Text_new(<<>>) >>
    /\ rawMode = FALSE
    /\ cursorShown = TRUE
    /\ screenCleared = FALSE
    /\ deferArmed = FALSE
    /\ restoreOps = <<>>
    /\ result = "running"
    /\ retval = <<>>
    /\ steps = <<>>
    /\ evalLog = <<>>
    /\ outCalls = 0
    /\ outSeen = <<>>
    /\ postrunLog = <<>>
    /\ \E v \in BOOLEAN :
          session = [preset |-> "password", validator |-> v, widths |-> {MaxWidth}]
    /\ keys = <<>>
    /\ size = <<>>
    /\ widthLog = [previous |-> <<>>, queried |-> <<>>, passed |-> <<>>]

\* run returns res: the scope ends, and the defer! block runs if it was
\* registered (lib.rs 190-194); the results of its commands are discarded.
Return(res) ==
    /\ pc' = "done"
    /\ result' = res
    /\ IF deferArmed
       THEN /\ restoreOps' = <<"MoveToNextLine", "Show", "disable_raw_mode">>
            /\ cursorShown' = TRUE
            /\ rawMode' = FALSE
       ELSE UNCHANGED <<restoreOps, cursorShown, rawMode>>

\* Engine::new, ONCE.call_once(engine.clear()), enable_raw_mode()?
RunEnableRawMode ==
    /\ pc = "enable_raw_mode"
    /\ UNCHANGED <<tbVars, fnVars, session, keys, size, widthLog>>
    /\ screenCleared' = TRUE
    /\ steps' = Append(steps, Step("enable_raw_mode", 0))
    /\ \/ /\ rawMode' = TRUE
          /\ pc' = "hide"
          /\ UNCHANGED <<result, restoreOps, cursorShown>>
       \/ Return("err_enable_raw_mode")
    /\ UNCHANGED <<idx, ev, finalizable, components, deferArmed, retval, evalLog,
                   outCalls, outSeen, postrunLog>>

\* execute!(io::stdout(), cursor::Hide)?; defer! { ... }
RunHide ==
    /\ pc = "hide"
    /\ UNCHANGED <<tbVars, fnVars, session, keys, size, widthLog>>
    /\ steps' = Append(steps, Step("hide", 0))
    /\ \/ /\ cursorShown' = FALSE
          /\ deferArmed' = TRUE
          /\ pc' = "start_session"
          /\ UNCHANGED <<result, restoreOps, rawMode>>
       \/ /\ Return("err_hide")
          /\ UNCHANGED deferArmed
    /\ UNCHANGED <<idx, ev, finalizable, components, screenCleared, retval, evalLog,
                   outCalls, outSeen, postrunLog>>

\* Terminal::start_session(&mut engine)?
RunStartSession ==
    /\ pc = "start_session"
    /\ UNCHANGED <<tbVars, fnVars, session, keys, size, widthLog>>
    /\ steps' = Append(steps, Step("start_session", 0))
    /\ \/ /\ pc' = "init_size"
          /\ UNCHANGED <<result, restoreOps, cursorShown, rawMode>>
       \/ Return("err_start_session")
    /\ UNCHANGED <<idx, ev, finalizable, components, screenCleared, deferArmed, retval,
                   evalLog, outCalls, outSeen, postrunLog>>

\* let size = engine.size() asked again when it fails.
Size_retrying(at, to) ==
    /\ pc = at
    /\ UNCHANGED <<tbVars, fnVars, session, keys>>
    /\ steps' = Append(steps, Step("size", 0))
    /\ \/ /\ \E width \in session.widths :
                /\ size' = <<width>>
                /\ widthLog' = [previous |-> widthLog.queried, queried |-> <<width>>,
                                passed |-> <<>>]
          /\ pc' = to
          /\ UNCHANGED <<result, restoreOps, cursorShown, rawMode>>
       \/ /\ pc' = at
          /\ UNCHANGED <<result, restoreOps, cursorShown, rawMode, size, widthLog>>
    /\ UNCHANGED <<idx, ev, finalizable, components, screenCleared, deferArmed, retval,
                   evalLog, outCalls, outSeen, postrunLog>>

\* let size = engine.size() keeping the size of the first query.
Size_cached(at, to) ==
    /\ pc = at
    /\ UNCHANGED <<tbVars, fnVars, session, keys>>
    /\ steps' = Append(steps, Step("size", 0))
    /\ \/ /\ \E width \in session.widths :
                /\ size' = IF size = <<>> THEN <<width>> ELSE size
                /\ widthLog' = [previous |-> widthLog.queried, queried |-> <<width>>,
                                passed |-> <<>>]
          /\ pc' = to
          /\ UNCHANGED <<result, restoreOps, cursorShown, rawMode>>
       \/ /\ Return("err_size")
          /\ UNCHANGED <<size, widthLog>>
    /\ UNCHANGED <<idx, ev, finalizable, components, screenCleared, deferArmed, retval,
                   evalLog, outCalls, outSeen, postrunLog>>

\* let size = engine.size()?  The terminal reports the width it has at that
\* moment.
Size(at, to) ==
    /\ pc = at
    /\ UNCHANGED <<tbVars, fnVars, session, keys>>
    /\ steps' = Append(steps, Step("size", 0))
    /\ \/ /\ \E width \in session.widths :
                /\ size' = <<width>>
                /\ widthLog' = [previous |-> widthLog.queried, queried |-> <<width>>,
                                passed |-> <<>>]
          /\ pc' = to
          /\ UNCHANGED <<result, restoreOps, cursorShown, rawMode>>
       \/ /\ Return("err_size")
          /\ UNCHANGED <<size, widthLog>>
    /\ UNCHANGED <<idx, ev, finalizable, components, screenCleared, deferArmed, retval,
                   evalLog, outCalls, outSeen, postrunLog>>

\* The make_pane calls of one redraw, in component order.
MakePanes == [i \in 1..NumComponents |-> Step("make_pane", i - 1)]

\* terminal.draw(&mut engine, components.map(make_pane(size.0)).collect())?
Draw(at, to) ==
    /\ pc = at
    /\ UNCHANGED <<tbVars, fnVars, session, keys, size>>
    /\ steps' = steps \o MakePanes \o <<Step("draw", NumComponents)>>
    /\ widthLog' = [widthLog EXCEPT !.passed = [i \in 1..NumComponents |-> size[1]]]
    /\ \/ /\ pc' = to
          /\ UNCHANGED <<result, restoreOps, cursorShown, rawMode>>
       \/ Return("err_draw")
    /\ UNCHANGED <<idx, ev, finalizable, components, screenCleared, deferArmed, retval,
                   evalLog, outCalls, outSeen, postrunLog>>

\* lib.rs 197: the size query of the initial frame.
RunInitSize == Size("init_size", "init_draw")

\* lib.rs 198-204: the initial frame.
RunInitDraw == Draw("init_draw", "read")

\* let ev = event::read()?
RunRead ==
    /\ pc = "read"
    /\ UNCHANGED <<tbVars, fnVars, session, size, widthLog>>
    /\ \/ /\ \E e \in SessionEvents :
                /\ Admissible(e)
                /\ ev' = e
                /\ keys' = Track(keys, e)
          /\ steps' = <<Step("read", 0)>>
          /\ evalLog' = <<>>
          /\ idx' = 0
          /\ pc' = IF NumComponents = 0 THEN "evaluate" ELSE "handle_event"
          /\ UNCHANGED <<result, restoreOps, cursorShown, rawMode>>
       \/ /\ Return("err_read")
          /\ UNCHANGED <<ev, keys, steps, evalLog, idx>>
    /\ UNCHANGED <<finalizable, components, screenCleared, deferArmed, retval,
                   outCalls, outSeen, postrunLog>>

\* The dispatch loop leaving after the first component.
RunHandleEvent_first_only ==
    /\ pc = "handle_event"
    /\ UNCHANGED <<tbVars, fnVars, session, keys, size, widthLog>>
    /\ components' = [components EXCEPT ![idx + 1] = Component_handle_event(@, ev)]
    /\ steps' = Append(steps, Step("handle_event", idx))
    /\ idx' = 0
    /\ pc' = "evaluate"
    /\ UNCHANGED <<ev, finalizable, rawMode, cursorShown, screenCleared, deferArmed,
                   restoreOps, result, retval, evalLog, outCalls, outSeen, postrunLog>>

\* The dispatch loop withholding the Enter press from the components, as if
\* the text went to the history at finalization only.
RunHandleEvent_withholds_enter ==
    /\ pc = "handle_event"
    /\ UNCHANGED <<tbVars, fnVars, session, keys, size, widthLog>>
    /\ components' = [components EXCEPT ![idx + 1] =
                          IF ev = EnterPress THEN @ ELSE Component_handle_event(@, ev)]
    /\ steps' = Append(steps, Step("handle_event", idx))
    /\ IF idx + 1 < NumComponents
       THEN /\ idx' = idx + 1
            /\ pc' = "handle_event"
       ELSE /\ idx' = 0
            /\ pc' = "evaluate"
    /\ UNCHANGED <<ev, finalizable, rawMode, cursorShown, screenCleared, deferArmed,
                   restoreOps, result, retval, evalLog, outCalls, outSeen, postrunLog>>

\* for editor in &mut self.components { editor.handle_event(&ev); }
\* one component per step.
RunHandleEvent ==
    /\ pc = "handle_event"
    /\ UNCHANGED <<tbVars, fnVars, session, keys, size, widthLog>>
    /\ components' = [components EXCEPT ![idx + 1] = Component_handle_event(@, ev)]
    /\ steps' = Append(steps, Step("handle_event", idx))
    /\ IF idx + 1 < NumComponents
       THEN /\ idx' = idx + 1
            /\ pc' = "handle_event"
       ELSE /\ idx' = 0
            /\ pc' = "evaluate"
    /\ UNCHANGED <<ev, finalizable, rawMode, cursorShown, screenCleared, deferArmed,
                   restoreOps, result, retval, evalLog, outCalls, outSeen, postrunLog>>

\* The evaluator closure of Password::prompt (preset/password.rs 68-108) on
\* event e and components cs: [ret, components]; it always returns Ok(ret).
\* The validator is called twice on the same text, and as a Fn closure
\* answers the same both times.
PasswordEvaluator_setting_on_accept(e, cs, validator) ==
    LET text == TextBuffer_to_string_without_cursor(cs[2].textbuffer)
        onEnter == Matches(e, KeyCode("Enter", ""), {}) /\ validator
        ret == IF onEnter THEN Validator_validate(text) ELSE TRUE
        flagged == IF onEnter /\ Validator_validate(text)
                   THEN [cs EXCEPT ![3].text = Validator_error_message(text)]
                   ELSE cs
        cleared == IF ret THEN flagged ELSE [flagged EXCEPT ![3] = Text_new(cs[3].init)]
    IN [ret |-> ret, components |-> cleared]

\* The evaluator resetting the error message on an accepted Enter press
\* only, not on the other events it returns true for.
PasswordEvaluator_reset_on_enter_only(e, cs, validator) ==
    LET text == TextBuffer_to_string_without_cursor(cs[2].textbuffer)
        isEnter == Matches(e, KeyCode("Enter", ""), {})
        onEnter == isEnter /\ validator
        ret == IF onEnter THEN Validator_validate(text) ELSE TRUE
        flagged == IF onEnter /\ ~Validator_validate(text)
                   THEN [cs EXCEPT ![3].text = Validator_error_message(text)]
                   ELSE cs
        cleared == IF ret /\ isEnter THEN [flagged EXCEPT ![3] = Text_new(cs[3].init)]
                   ELSE flagged
    IN [ret |-> ret, components |-> cleared]

\* The evaluator never consulting the validator: it returns true for every
\* event and resets the message.
PasswordEvaluator_ignoring_validator(e, cs, validator) ==
    [ret |-> TRUE, components |-> [cs EXCEPT ![3] = Text_new(cs[3].init)]]

PasswordEvaluator(e, cs, validator) ==
    LET text == TextBuffer_to_string_without_cursor(cs[2].textbuffer)
        onEnter == Matches(e, KeyCode("Enter", ""), {}) /\ validator
        ret == IF onEnter THEN Validator_validate(text) ELSE TRUE
        flagged == IF onEnter /\ ~Validator_validate(text)
                   THEN [cs EXCEPT ![3].text = Validator_error_message(text)]
                   ELSE cs
        cleared == IF ret THEN [flagged EXCEPT ![3] = Text_new(cs[3].init)] ELSE flagged
    IN [ret |-> ret, components |-> cleared]

\* The evaluator closure of Select::prompt, Tree::prompt and Json::prompt:
\* |_, _| Ok(true).
SelectionEvaluator(e, cs) == TRUE

\* let finalizable = (self.evaluator)(&ev, &self.components)?
\* The evaluator of a custom Prompt is any closure: it returns Ok(true),
\* Ok(false) or Err.
RunEvaluate ==
    /\ pc = "evaluate"
    /\ UNCHANGED <<tbVars, fnVars, session, keys, size, widthLog>>
    /\ steps' = Append(steps, Step("evaluator", 0))
    /\ IF session.preset = "password"
       THEN LET r == PasswordEvaluator(ev, components, session.validator)
            IN /\ finalizable' = r.ret
               /\ components' = r.components
               /\ evalLog' = <<[ev |-> ev, ok |-> TRUE, value |-> r.ret]>>
               /\ pc' = "size"
               /\ UNCHANGED <<result, restoreOps, cursorShown, rawMode>>
       ELSE IF session.preset \in SelectionPresets
       THEN /\ finalizable' = SelectionEvaluator(ev, components)
            /\ evalLog' = <<[ev |-> ev, ok |-> TRUE,
                             value |-> SelectionEvaluator(ev, components)]>>
            /\ pc' = "size"
            /\ UNCHANGED <<components, result, restoreOps, cursorShown, rawMode>>
       ELSE /\ UNCHANGED components
            /\ \/ \E r \in BOOLEAN :
                    /\ finalizable' = r
                    /\ evalLog' = <<[ev |-> ev, ok |-> TRUE, value |-> r]>>
                    /\ pc' = "size"
                    /\ UNCHANGED <<result, restoreOps, cursorShown, rawMode>>
               \/ /\ evalLog' = <<[ev |-> ev, ok |-> FALSE, value |-> FALSE]>>
                  /\ Return("err_evaluator")
                  /\ UNCHANGED finalizable
    /\ UNCHANGED <<idx, ev, screenCleared, deferArmed, retval, outCalls,
                   outSeen, postrunLog>>

\* lib.rs 215: the size query of the redraw.
RunSize == Size("size", "draw")

\* lib.rs 216-222: the redraw.
RunDraw == Draw("draw", "check")

\* The termination check taking any Enter key event, whatever its kind and
\* modifiers, for the Enter press.
RunCheck_any_enter ==
    /\ pc = "check"
    /\ UNCHANGED <<tbVars, fnVars, session, keys, size, widthLog>>
    /\ steps' = Append(steps, Step("check", 0))
    /\ IF ev.type = "Key" /\ ev.code = KeyCode("Enter", "")
       THEN /\ pc' = IF finalizable THEN "output" ELSE "read"
            /\ UNCHANGED <<result, restoreOps, cursorShown, rawMode>>
       ELSE IF Matches(ev, KeyCode("Char", "c"), {"CONTROL"})
       THEN Return("interrupted")
       ELSE /\ pc' = "read"
            /\ UNCHANGED <<result, restoreOps, cursorShown, rawMode>>
    /\ finalizable' = FALSE
    /\ UNCHANGED <<idx, ev, components, screenCleared, deferArmed, retval,
                   evalLog, outCalls, outSeen, postrunLog>>

\* The termination check breaking on every Enter press, `finalizable` ignored.
RunCheck_ignores_finalizable ==
    /\ pc = "check"
    /\ UNCHANGED <<tbVars, fnVars, session, keys, size, widthLog>>
    /\ steps' = Append(steps, Step("check", 0))
    /\ IF Matches(ev, KeyCode("Enter", ""), {})
       THEN /\ pc' = "output"
            /\ UNCHANGED <<result, restoreOps, cursorShown, rawMode>>
       ELSE IF Matches(ev, KeyCode("Char", "c"), {"CONTROL"})
       THEN Return("interrupted")
       ELSE /\ pc' = "read"
            /\ UNCHANGED <<result, restoreOps, cursorShown, rawMode>>
    /\ finalizable' = FALSE
    /\ UNCHANGED <<idx, ev, components, screenCleared, deferArmed, retval,
                   evalLog, outCalls, outSeen, postrunLog>>

\* The termination check where a finalizable event is never an interruption:
\* the Ctrl+C arm is tried only when `finalizable` is false.
RunCheck_interrupt_unless_finalizable ==
    /\ pc = "check"
    /\ UNCHANGED <<tbVars, fnVars, session, keys, size, widthLog>>
    /\ steps' = Append(steps, Step("check", 0))
    /\ IF Matches(ev, KeyCode("Enter", ""), {})
       THEN /\ pc' = IF finalizable THEN "output" ELSE "read"
            /\ UNCHANGED <<result, restoreOps, cursorShown, rawMode>>
       ELSE IF Matches(ev, KeyCode("Char", "c"), {"CONTROL"}) /\ ~finalizable
       THEN Return("interrupted")
       ELSE /\ pc' = "read"
            /\ UNCHANGED <<result, restoreOps, cursorShown, rawMode>>
    /\ finalizable' = FALSE
    /\ UNCHANGED <<idx, ev, components, screenCleared, deferArmed, retval,
                   evalLog, outCalls, outSeen, postrunLog>>

\* match &ev { Enter => if finalizable { break }, Ctrl+C => return Err, _ => () }
\* The iteration ends here, and with it the scope of `finalizable`.
RunCheck ==
    /\ pc = "check"
    /\ UNCHANGED <<tbVars, fnVars, session, keys, size, widthLog>>
    /\ steps' = Append(steps, Step("check", 0))
    /\ IF Matches(ev, KeyCode("Enter", ""), {})
       THEN /\ pc' = IF finalizable THEN "output" ELSE "read"
            /\ UNCHANGED <<result, restoreOps, cursorShown, rawMode>>
       ELSE IF Matches(ev, KeyCode("Char", "c"), {"CONTROL"})
       THEN Return("interrupted")
       ELSE /\ pc' = "read"
            /\ UNCHANGED <<result, restoreOps, cursorShown, rawMode>>
    /\ finalizable' = FALSE
    /\ UNCHANGED <<idx, ev, components, screenCleared, deferArmed, retval,
                   evalLog, outCalls, outSeen, postrunLog>>

\* The output closure returning the whole buffer, the sentinel included.
PasswordOutput_with_sentinel(cs) == Graphemes_to_string(cs[2].textbuffer.buf)

\* The output closure of Password::prompt (preset/password.rs 109-118): the
\* editor's text, always Ok.
PasswordOutput(cs) == TextEditor_output(cs[2])

\* The output closure returning the first row of the viewer.
SelectionOutput_head(cs) == cs[2].items[1]

\* The output closure of Select::prompt, Tree::prompt and Json::prompt: the
\* get() of the viewer in components[1], the row under its cursor, always
\* Ok.
SelectionOutput(cs) == cs[2].items[cs[2].position + 1]

\* The extractor called, and run returning without the postrun loop.
RunOutput_no_postrun ==
    /\ pc = "output"
    /\ UNCHANGED <<tbVars, fnVars, session, keys, size, widthLog>>
    /\ outCalls' = outCalls + 1
    /\ outSeen' = <<[components |-> components, postrunLog |-> postrunLog]>>
    /\ IF session.preset = "password"
       THEN retval' = <<[ok |-> TRUE, value |-> PasswordOutput(components)]>>
       ELSE IF session.preset \in SelectionPresets
       THEN retval' = <<[ok |-> TRUE, value |-> SelectionOutput(components)]>>
       ELSE \E ok \in BOOLEAN :
                retval' = <<[ok |-> ok, value |-> IF ok THEN components ELSE <<>>]>>
    /\ steps' = Append(steps, Step("output", 0))
    /\ idx' = 0
    /\ pc' = "return"
    /\ UNCHANGED <<ev, finalizable, components, rawMode, cursorShown, screenCleared,
                   deferArmed, restoreOps, result, evalLog, postrunLog>>

\* let ret = (self.output)(&self.components);
\* The extractor of a custom Prompt is any closure: Ok of the component
\* states it is given, or Err.
RunOutput ==
    /\ pc = "output"
    /\ UNCHANGED <<tbVars, fnVars, session, keys, size, widthLog>>
    /\ outCalls' = outCalls + 1
    /\ outSeen' = <<[components |-> components, postrunLog |-> postrunLog]>>
    /\ IF session.preset = "password"
       THEN retval' = <<[ok |-> TRUE, value |-> PasswordOutput(components)]>>
       ELSE IF session.preset \in SelectionPresets
       THEN retval' = <<[ok |-> TRUE, value |-> SelectionOutput(components)]>>
       ELSE \E ok \in BOOLEAN :
                retval' = <<[ok |-> ok, value |-> IF ok THEN components ELSE <<>>]>>
    /\ steps' = Append(steps, Step("output", 0))
    /\ idx' = 0
    /\ pc' = IF NumComponents = 0 THEN "return" ELSE "postrun"
    /\ UNCHANGED <<ev, finalizable, components, rawMode, cursorShown, screenCleared,
                   deferArmed, restoreOps, result, evalLog, postrunLog>>

\* self.components.iter_mut().for_each(|editor| editor.postrun());
\* one component per step.
RunPostrun ==
    /\ pc = "postrun"
    /\ UNCHANGED <<tbVars, fnVars, session, keys, size, widthLog>>
    /\ components' = [components EXCEPT ![idx + 1] = Component_postrun(@)]
    /\ postrunLog' = Append(postrunLog, idx)
    /\ steps' = Append(steps, Step("postrun", idx))
    /\ IF idx + 1 < NumComponents
       THEN /\ idx' = idx + 1
            /\ pc' = "postrun"
       ELSE /\ idx' = 0
            /\ pc' = "return"
    /\ UNCHANGED <<ev, finalizable, rawMode, cursorShown, screenCleared, deferArmed,
                   restoreOps, result, retval, evalLog, outCalls, outSeen>>

\* ret
RunReturn ==
    /\ pc = "return"
    /\ UNCHANGED <<tbVars, fnVars, session, keys, size, widthLog>>
    /\ Return(IF retval # <<>> /\ retval[1].ok THEN "ok" ELSE "err_output")
    /\ UNCHANGED <<idx, ev, finalizable, components, screenCleared, deferArmed, retval,
                   steps, evalLog, outCalls, outSeen, postrunLog>>

(***************************************************************************)
(* Specifications: SpecTB drives one TextBuffer, Spec one session of a      *)
(* custom Prompt, SpecPassword one session of the password preset.         *)
(***************************************************************************)
Init == TBInit /\ RunInit /\ FnIdle

TBNext ==
    \/ TBInsert
    \/ TBOverwrite
    \/ TBErase
    \/ TBToHead
    \/ TBToTail
    \/ TBStepLeft
    \/ TBStepRight
    \/ TBReplace

Next ==
    \/ RunEnableRawMode
    \/ RunHide
    \/ RunStartSession
    \/ RunInitSize
    \/ RunInitDraw
    \/ RunRead
    \/ RunHandleEvent
    \/ RunEvaluate
    \/ RunSize
    \/ RunDraw
    \/ RunCheck
    \/ RunOutput
    \/ RunPostrun
    \/ RunReturn

InitPassword == TBInit /\ PasswordInit /\ FnIdle

InitForm == TBInit /\ FormInit /\ FnIdle

InitSelection == TBInit /\ SelectionInit /\ FnIdle

InitLCP == TBInit /\ RunInit /\ LCPInit

LCPNext ==
    \/ LCPCall

InitSelect == TBInit /\ RunInit /\ SelectInit

SelectNext ==
    \/ SelectRender
    \/ SelectMoveDown
    \/ SelectMoveTail
    \/ SelectSelectboxLines

InitNav == TBInit /\ RunInit /\ NavInit

NavNext ==
    \/ NavUp
    \/ NavDown
    \/ NavHead
    \/ NavTail
    \/ NavRender

ResizeNext ==
    \/ NavUp
    \/ NavDown
    \/ NavHead
    \/ NavTail
    \/ NavRender
    \/ NavResize

InitDraw == TBInit /\ RunInit /\ DrawInit

DrawNext ==
    \/ DrawAgain
    \/ DrawEdited
    \/ DrawResized
    \/ TermScroll

InitListPane == TBInit /\ RunInit /\ ListPaneInit

ListPaneNext ==
    \/ CheckboxMakePane
    \/ ListboxMakePane
    \/ TrimCall

InitEditor == TBInit /\ RunInit /\ EditorInit

EditorNext ==
    \/ EditorHandleEvent

InitGenPane == TBInit /\ RunInit /\ GenPaneInit

GenPaneNext ==
    \/ GenPaneCall

SpecTB == Init /\ [][TBNext]_vars

SpecPassword == InitPassword /\ [][Next]_vars

SpecForm == InitForm /\ [][Next]_vars

SpecSelection == InitSelection /\ [][Next]_vars

SpecLCP == InitLCP /\ [][LCPNext]_vars

SpecGenPane == InitGenPane /\ [][GenPaneNext]_vars

SpecSelect == InitSelect /\ [][SelectNext]_vars

SpecNav == InitNav /\ [][NavNext]_vars

SpecResize == InitNav /\ [][ResizeNext]_vars

SpecDraw == InitDraw /\ [][DrawNext]_vars

SpecEditor == InitEditor /\ [][EditorNext]_vars

SpecListPane == InitListPane /\ [][ListPaneNext]_vars

Spec == Init /\ [][Next]_vars

(***************************************************************************)
(* Properties of the text buffer, checked under SpecTB.                    *)
(***************************************************************************)
\* The operations that return a [before, after] pair.
MutatingOps == {"insert", "overwrite", "erase", "to_head", "to_tail", "prev", "next"}

\* Index (0-based) of the last element of the buffer before the last call.
PreTail == Len(tbPre.buf) - 1

\* C1: after TextBuffer::new() and any sequence of insert, overwrite, erase,
\* prev, next, to_head, to_tail and replace, the buffer is non-empty, its
\* last element is the sentinel space, and position is in [0, buf.len()-1].
C1_BufferInvariant ==
    /\ tb.buf # <<>>
    /\ tb.buf[Len(tb.buf)] = Sentinel
    /\ tb.position \in 0..(Len(tb.buf) - 1)

\* C1 witness: replace has adopted a non-empty sequence over a longer buffer.
C1_Witness ==
    /\ tbOp = "replace"
    /\ tbArg # <<>>
    /\ Len(tbPre.buf) > Len(tb.buf)
    /\ tbPre.position < PreTail

\* C7: every mutating operation returns [state before the call, state after
\* the call]; when the call is a no-op (erase or prev at head, next at tail)
\* the two elements are equal.
C7_ReturnsBeforeAfter ==
    tbOp \in MutatingOps =>
        /\ tbRet = <<tbPre, tb>>
        /\ ( \/ (tbOp \in {"erase", "prev"} /\ tbPre.position = 0)
             \/ (tbOp = "next" /\ tbPre.position = PreTail) )
           => tbRet[1] = tbRet[2]

\* C7 witness: prev has moved the cursor of a buffer holding text.
C7_Witness ==
    /\ tbOp = "prev"
    /\ tbPre.position > 0
    /\ tbRet[1] # tbRet[2]

\* C8: insert(g) places g at the old cursor index, keeps every other
\* grapheme in its relative order, grows the buffer by exactly one, advances
\* the cursor by exactly one, and never fails.
C8_Insert ==
    tbOp = "insert" =>
        LET p == tbPre.position
            g == tbArg[1]
        IN /\ ~tbPanic
           /\ Len(tb.buf) = Len(tbPre.buf) + 1
           /\ tb.buf[p + 1] = g
           /\ \A i \in 1..p : tb.buf[i] = tbPre.buf[i]
           /\ \A i \in (p + 1)..Len(tbPre.buf) : tb.buf[i + 1] = tbPre.buf[i]
           /\ tb.position = p + 1

\* C8 witness: an insert strictly between head and tail.
C8_Witness ==
    /\ tbOp = "insert"
    /\ tbPre.position > 0
    /\ tbPre.position < PreTail

\* C9: overwrite(g) at the tail gives the same buffer, cursor and returned
\* pair as insert(g); elsewhere it replaces only the grapheme at the cursor,
\* keeps the length and advances the cursor by one.
C9_Overwrite ==
    tbOp = "overwrite" =>
        LET p == tbPre.position
            g == tbArg[1]
            inserted == TextBuffer_insert(tbPre, g)
        IN /\ p = PreTail =>
                /\ tb = inserted.tb
                /\ tbRet = inserted.ret
                /\ tb.buf = SubSeq(tbPre.buf, 1, p) \o <<g, Sentinel>>
                /\ tb.position = p + 1
           /\ p # PreTail =>
                /\ Len(tb.buf) = Len(tbPre.buf)
                /\ tb.buf[p + 1] = g
                /\ \A i \in 1..Len(tbPre.buf) : i # p + 1 => tb.buf[i] = tbPre.buf[i]
                /\ tb.position = p + 1

\* C9 witness: an overwrite at the tail of a buffer holding text.
C9_Witness ==
    /\ tbOp = "overwrite"
    /\ tbPre.position = PreTail
    /\ PreTail > 0

\* C10: erase() at cursor 0 changes nothing; at cursor p > 0 it removes
\* exactly the grapheme at index p-1, moves the cursor to p-1, and the
\* trailing sentinel stays.
C10_Erase ==
    tbOp = "erase" =>
        LET p == tbPre.position
        IN /\ p = 0 => tb = tbPre
           /\ p > 0 =>
                /\ Len(tb.buf) = Len(tbPre.buf) - 1
                /\ \A i \in 1..(p - 1) : tb.buf[i] = tbPre.buf[i]
                /\ \A i \in p..Len(tb.buf) : tb.buf[i] = tbPre.buf[i + 1]
                /\ tb.position = p - 1
                /\ p - 1 < PreTail
                /\ tb.buf[Len(tb.buf)] = Sentinel

\* C10 witness: an erase at the tail, right before the sentinel.
C10_Witness ==
    /\ tbOp = "erase"
    /\ tbPre.position = PreTail
    /\ PreTail > 0
    /\ tbPre.buf[PreTail] # Sentinel

\* C11: prev() decrements the cursor by one unless it is at 0, next()
\* increments it by one unless it is at len-1; at the boundary each is a
\* no-op, and neither changes the buffer contents.
C11_StepLeftRight ==
    /\ tbOp = "prev" =>
          /\ tb.buf = tbPre.buf
          /\ tb.position = IF tbPre.position = 0 THEN 0 ELSE tbPre.position - 1
    /\ tbOp = "next" =>
          /\ tb.buf = tbPre.buf
          /\ tb.position = IF tbPre.position = PreTail THEN PreTail
                           ELSE tbPre.position + 1

\* C11 witness: next() was called at the tail of a buffer holding text, and
\* left the cursor on the sentinel.
C11_Witness ==
    /\ tbOp = "next"
    /\ PreTail > 0
    /\ tbPre.position = PreTail
    /\ tb = tbPre

\* C12: to_head() sets the cursor to 0 and to_tail() sets it to len-1, the
\* sentinel index, from any cursor position; both leave the buffer contents
\* unchanged.
C12_JumpHeadTail ==
    /\ tbOp = "to_head" => (tb.buf = tbPre.buf /\ tb.position = 0)
    /\ tbOp = "to_tail" =>
          /\ tb.buf = tbPre.buf
          /\ tb.position = PreTail
          /\ tb.buf[tb.position + 1] = Sentinel

\* C12 witness: to_tail() was called with the cursor strictly between head
\* and tail.
C12_Witness ==
    /\ tbOp = "to_tail"
    /\ tbPre.position > 0
    /\ tbPre.position < PreTail
    /\ tb.position = PreTail

\* C23: replace(new) discards the current content whatever the state
\* before: afterwards the buffer is exactly new followed by one sentinel
\* space and the cursor is at the tail, index len(new).
C23_Replace ==
    tbOp = "replace" =>
        /\ tb.buf = tbArg \o <<Sentinel>>
        /\ tb.position = Len(tbArg)
        /\ tb.position = Len(tb.buf) - 1

\* C23 witness: replace(new) was called on a buffer holding other text, the
\* cursor in the middle of it.
C23_Witness ==
    /\ tbOp = "replace"
    /\ tbArg # <<>>
    /\ PreTail >= 2
    /\ tbPre.position \in 1..(PreTail - 1)
    /\ tbArg # TextBuffer_text(tbPre)
    /\ tb.buf = Append(tbArg, Sentinel)

\* C24: the displayable content, text(), is the buffer with exactly the
\* trailing sentinel removed and does not depend on the cursor position;
\* the editor's output is its characters; replace(g) followed by text()
\* returns g, and text() of a new buffer is empty.
C24_TextIsContent ==
    /\ TextBuffer_text(tb) \o <<Sentinel>> = tb.buf
    /\ \A p \in 0..(Len(tb.buf) - 1) :
          TextBuffer_text([tb EXCEPT !.position = p]) = TextBuffer_text(tb)
    /\ TextEditor_output([textbuffer |-> tb]) =
          [i \in 1..(Len(tb.buf) - 1) |-> tb.buf[i].ch]
    /\ tbOp = "replace" => TextBuffer_text(tb) = tbArg
    /\ tbOp = "new" => TextBuffer_text(tb) = <<>>

\* C24 witness: a buffer that holds text ending in a space, with the cursor
\* away from the tail.
C24_Witness ==
    /\ Len(tb.buf) >= 3
    /\ tb.position < Len(tb.buf) - 1
    /\ tb.buf[Len(tb.buf) - 1] = Sentinel
    /\ Len(TextBuffer_text(tb)) = Len(tb.buf) - 1

\* C40: for every valid buffer and grapheme g, insert(g) followed by
\* erase() gives back exactly the buffer and the cursor insert(g) was called
\* on: erase undoes the insert that has just been made, and a step that
\* erases right after an insert leaves the buffer as it was before the
\* insert.
C40_InsertThenErase ==
    /\ [](tbOp = "insert" =>
            LET r == TextBuffer_erase(tb)
            IN r.tb = tbPre /\ ~r.panic /\ ~tbPanic)
    /\ [][(tbOp = "insert" /\ tbOp' = "erase") => tb' = tbPre]_vars

\* C40 witness: an insert made in the middle of a text, the cursor between
\* the head and the tail before it.
C40_Witness ==
    /\ tbOp = "insert"
    /\ tbPre.position > 0
    /\ tbPre.position < Len(tbPre.buf) - 1
    /\ tb.buf[tb.position] = tbArg[1]
    /\ tb # tbPre

(***************************************************************************)
(* Properties of Graphemes::longest_common_prefix, checked under SpecLCP.  *)
(***************************************************************************)
\* s is a prefix of t under element-wise equality.
PrefixOf(s, t) == Len(s) <= Len(t) /\ \A i \in 1..Len(s) : s[i] = t[i]

\* C14: for all grapheme sequences a, longest_common_prefix(a, a) = a,
\* longest_common_prefix(a, empty) = empty and
\* longest_common_prefix(empty, a) = empty.
C14_LcpIdentities ==
    fnOp = "longest_common_prefix" =>
        /\ fnArgs[1] = fnArgs[2] => fnRet[1] = fnArgs[1]
        /\ fnArgs[2] = <<>> => fnRet[1] = <<>>
        /\ fnArgs[1] = <<>> => fnRet[1] = <<>>

\* C14 witness: longest_common_prefix(a, a) was called on a sequence of the
\* greatest length that mixes graphemes.
C14_Witness ==
    /\ fnOp = "longest_common_prefix"
    /\ fnArgs[1] = fnArgs[2]
    /\ Len(fnArgs[1]) = MaxSeq
    /\ fnArgs[1][1] # fnArgs[1][2]
    /\ fnRet[1] = fnArgs[1]

\* C15: for all grapheme sequences a and b, longest_common_prefix(a, b) is
\* the longest sequence that is a prefix of both: its length is the first
\* index where a and b differ or where either ends, and it equals
\* longest_common_prefix(b, a).
C15_LcpLongest ==
    fnOp = "longest_common_prefix" =>
        LET a == fnArgs[1]
            b == fnArgs[2]
            r == fnRet[1]
            shorter == IF Len(a) <= Len(b) THEN Len(a) ELSE Len(b)
            stops == {k \in 0..shorter : k = shorter \/ a[k + 1] # b[k + 1]}
        IN /\ PrefixOf(r, a)
           /\ PrefixOf(r, b)
           /\ \A s \in SeqsUpTo(SeqGraphemes, shorter) :
                  (PrefixOf(s, a) /\ PrefixOf(s, b)) => Len(s) <= Len(r)
           /\ Len(r) \in stops
           /\ \A k \in stops : Len(r) <= k
           /\ r = Graphemes_longest_common_prefix(b, a)

\* C15 witness: the two sequences agree on a first grapheme, differ on the
\* second and agree again on the third.
C15_Witness ==
    /\ fnOp = "longest_common_prefix"
    /\ Len(fnArgs[1]) = 3
    /\ Len(fnArgs[2]) = 3
    /\ fnArgs[1][1] = fnArgs[2][1]
    /\ fnArgs[1][2] # fnArgs[2][2]
    /\ fnArgs[1][3] = fnArgs[2][3]
    /\ Len(fnRet[1]) = 1

(***************************************************************************)
(* Properties of TextEditor::gen_pane, checked under SpecGenPane.          *)
(***************************************************************************)
\* Number of graphemes in the first n rows.
RECURSIVE CellsIn(_, _)
CellsIn(rows, n) == IF n = 0 THEN 0 ELSE Len(rows[n]) + CellsIn(rows, n - 1)

\* The row (0-based) of the layout that holds the k-th grapheme (0-based) of
\* the line.
RowHolding(rows, k) ==
    CHOOSE r \in 0..(Len(rows) - 1) : CellsIn(rows, r) <= k /\ k < CellsIn(rows, r + 1)

\* C16: the focus row of a text editor's pane is the row of the reflowed
\* line (label followed by buffer content) that holds the cursor, for every
\* label width, cursor index and terminal width >= 1.
C16_FocusRowHoldsCursor ==
    fnOp = "gen_pane" =>
        /\ ~fnRet[1].panic
        /\ fnRet[1].focus =
              RowHolding(fnRet[1].layout, Len(fnArgs.label) + fnArgs.textbuffer.position)

(***************************************************************************)
(* Properties of the select State, checked under SpecSelect.               *)
(***************************************************************************)
\* The terminal does not leave the rows to render the select box.
NoSpace == fnArgs.rows <= State_used_space(fnArgs.state)

\* The call is one that needs the available space: render draws nothing,
\* and needs none, when the select box is empty.
NeedsSpace ==
    /\ fnOp \in {"render", "move_down", "move_tail", "selectbox_lines"}
    /\ fnOp = "render" => fnArgs.state.len > 0

\* C17: when the terminal rows are at most init_move_down_lines plus the
\* title lines, each of render, move_down, move_tail and selectbox_lines
\* returns an error value: it neither panics nor lets a subtraction wrap.
C17_NoSpaceIsAnError ==
    (NeedsSpace /\ NoSpace) =>
        /\ fnRet[1].outcome = "err"
        /\ ~fnRet[1].wrapped

\* The State, the terminal rows and the outcome of the call.
Called == fnArgs.state
Rows == fnArgs.rows
Outcome == fnRet[1]

\* The terminal leaves at least one row below the lines above the box.
Roomy == Rows > State_used_space(Called)

\* C32: with an empty item list, where selectbox_lines is 0, move_down and
\* move_tail leave selected_cursor_position at a valid value, 0, without an
\* arithmetic underflow, and render draws nothing and succeeds; stated for
\* a terminal that leaves rows for the box, so that 0 lines come from the
\* empty list alone.
C32_EmptyListIsSafe ==
    (Called.len = 0 /\ Roomy) =>
        /\ fnOp \in {"move_down", "move_tail"} =>
              /\ Outcome.outcome = "ok"
              /\ ~Outcome.wrapped
              /\ Outcome.state.selected_cursor_position = 0
        /\ fnOp = "render" =>
              /\ Outcome.outcome = "ok"
              /\ Outcome.value = <<>>
        /\ fnOp = "selectbox_lines" =>
              /\ Outcome.outcome = "ok"
              /\ Outcome.value = 0

\* The rows the terminal leaves below the lines above the box; negative
\* when it has fewer rows than those lines.
RowsLeft == Rows - State_used_space(Called)

\* C33: selectbox_lines returns the least of the terminal rows minus
\* init_move_down_lines minus the title lines, the window when one is set,
\* and the number of items, so what it returns never exceeds the rows left
\* on screen, the window or the item count; and a render that draws, draws
\* no more rows than that.
C33_LinesIsMinimum ==
    /\ fnOp = "selectbox_lines" =>
          /\ Outcome.outcome = "ok"
          /\ ~Outcome.wrapped
          /\ Outcome.value =
                 Min(RowsLeft,
                     Min(IF Called.window = <<>> THEN RowsLeft ELSE Called.window[1],
                         Called.len))
          /\ Outcome.value <= Max(RowsLeft, 0)
          /\ Called.window # <<>> => Outcome.value <= Called.window[1]
          /\ Outcome.value <= Called.len
    /\ (fnOp = "render" /\ Outcome.outcome = "ok" /\ Outcome.value # <<>>
          /\ ~Outcome.wrapped) =>
          LET drawn == Outcome.value[2] - Outcome.value[1]
          IN /\ drawn <= RowsLeft
             /\ Called.window # <<>> => drawn <= Called.window[1]
             /\ drawn <= Called.len

(***************************************************************************)
(* Properties of a select session, checked under SpecNav.                  *)
(***************************************************************************)
\* The State of the session and the rows its terminal leaves for the box.
Sel == fnArgs.state
LeftSpace == fnArgs.rows - State_used_space(Sel)

\* The State has just been rendered with more items than its window.
RenderedOverCap ==
    /\ fnOp = "render"
    /\ Sel.window # <<>>
    /\ Sel.len > Sel.window[1]

BoxLines ==
    Min(LeftSpace, Min(IF Sel.window = <<>> THEN LeftSpace ELSE Sel.window[1], Sel.len))

\* A cursor-moving operation has just been called.
Moved == fnOp \in {"up", "down", "head", "tail"}

\* C31: on a terminal of fixed size and with a non-empty item list, after
\* any sequence of move_up, move_down, move_head and move_tail the
\* selected_cursor_position is within [0, selectbox_lines - 1] (taken as
\* 0 where the box has no line at all), no operation panics or wraps, and
\* move_up at 0 and move_down at selectbox_lines - 1 change nothing.
C31_CursorWithinBox ==
    /\ [](Moved =>
            /\ fnRet[1].outcome = "ok"
            /\ ~fnRet[1].wrapped
            /\ 0 <= Sel.selected_cursor_position
            /\ Sel.selected_cursor_position <= Max(BoxLines, 1) - 1)
    /\ [][ (fnOp' = "up" /\ Sel.selected_cursor_position = 0) =>
              fnArgs'.state.selected_cursor_position = 0 ]_vars
    /\ [][ (fnOp' = "down" /\ BoxLines >= 1
              /\ Sel.selected_cursor_position = BoxLines - 1) =>
              fnArgs'.state.selected_cursor_position = BoxLines - 1 ]_vars

(***************************************************************************)
(* Properties of a select session on a terminal that is resized, checked   *)
(* under SpecResize.                                                       *)
(***************************************************************************)
\* C34: when the terminal height has shrunk between two redraws so that
\* selectbox_lines is smaller than or equal to the current
\* selected_cursor_position, the terminal still leaving rows for the box,
\* the next render computes a valid row range [from, to): the subtraction
\* selectbox_lines - selected_cursor_position does not underflow and
\* 0 <= from <= to.
C34_ValidRangeAfterShrink ==
    (fnOp = "render" /\ LeftSpace >= 1 /\ BoxLines <= Sel.selected_cursor_position) =>
        /\ fnRet[1].outcome = "ok"
        /\ ~fnRet[1].wrapped
        /\ 0 <= fnRet[1].value[1]
        /\ fnRet[1].value[1] <= fnRet[1].value[2]

(***************************************************************************)
\* The line clears and line rewrites among the operations of the last draw.
ClearsAndWrites ==
    {k \in 1..Len(fnRet[1].ops) : fnRet[1].ops[k].op \in {"Clear", "Write"}}

\* C20: a redraw whose panes are identical to those of the draw before, at
\* the same terminal width and with no scroll in between, issues no line
\* clear and no line rewrite.
C20_RedrawIdempotent ==
    (fnOp = "draw" /\ fnRet[1].identical) => ClearsAndWrites = {}

\* C20 witness: a frame of at least two lines, one pane windowed by its
\* cap, has been redrawn unchanged.
C20_Witness ==
    /\ fnOp = "draw"
    /\ fnRet[1].identical
    /\ Len(fnArgs.term.frame) >= 2
    /\ \E i \in 1..Len(fnArgs.panes) :
          Len(Pane_window(fnArgs.panes[i])) < Len(fnArgs.panes[i].rows)
    /\ fnRet[1].ops = <<[op |-> "MoveTo", line |-> 0]>>

(***************************************************************************)
(* Properties of the text editor, checked under SpecEditor.                *)
(***************************************************************************)
\* The event handled last and the editor as it was before.
Handled == fnRet[1].event
Before == fnRet[1].before

\* C25: a Ctrl+U press resets the editor's buffer, from any state, to the
\* empty buffer: the sentinel only, cursor 0, equal to a freshly created
\* buffer; nothing else of the editor changes.
C25_CtrlUErasesAll ==
    (fnOp = "handle_event" /\ Handled = Press(KeyCode("Char", "u"), {"CONTROL"})) =>
        /\ fnArgs.textbuffer.buf = <<Sentinel>>
        /\ fnArgs.textbuffer.position = 0
        /\ fnArgs.textbuffer = TextBuffer_new
        /\ fnArgs = [Before EXCEPT !.textbuffer = TextBuffer_new]

\* C25 witness: Ctrl+U was pressed on a buffer of two graphemes with the
\* cursor between them.
C25_Witness ==
    /\ fnOp = "handle_event"
    /\ Handled = Press(KeyCode("Char", "u"), {"CONTROL"})
    /\ Len(Before.textbuffer.buf) = 3
    /\ Before.textbuffer.position = 1
    /\ fnArgs.textbuffer = TextBuffer_new

\* The buffer after the event is `text` followed by the sentinel, the
\* cursor at the tail.
ReplacedBy(text) ==
    /\ fnArgs.textbuffer.buf = Graphemes(text) \o <<Sentinel>>
    /\ fnArgs.textbuffer.position = Len(text)
    /\ TextBuffer_is_tail(fnArgs.textbuffer)

\* C36: an Up or Down press replaces the buffer with the history entry the
\* history moved to only when history.prev() / history.next() reports a
\* move, a Tab press replaces it with the suggestion only when
\* suggest.search finds one for the text; otherwise buffer and cursor are
\* as they were.  After a replacement the cursor is at the tail.  Nothing
\* else of the editor changes but the history's position.
C36_ReplaceOnlyWhenMoved ==
    fnOp = "handle_event" =>
        /\ Handled = Press(KeyCode("Up", ""), {}) =>
              IF History_prev(Before.history).moved
              THEN /\ Before.history.position > 0
                   /\ ReplacedBy(Before.history.buf[Before.history.position])
                   /\ fnArgs.history =
                          [Before.history EXCEPT !.position = @ - 1]
              ELSE /\ Before.history.position = 0
                   /\ fnArgs = Before
        /\ Handled = Press(KeyCode("Down", ""), {}) =>
              IF History_next(Before.history).moved
              THEN /\ ReplacedBy(Before.history.buf[Before.history.position + 2])
                   /\ fnArgs.history =
                          [Before.history EXCEPT !.position = @ + 1]
              ELSE /\ Before.history.position = Len(Before.history.buf) - 1
                   /\ fnArgs = Before
        /\ Handled = Press(KeyCode("Tab", ""), {}) =>
              LET found == Suggest_search(Before.suggest, TextEditor_output(Before))
              IN /\ fnArgs.history = Before.history
                 /\ IF found # <<>>
                    THEN ReplacedBy(found[1])
                    ELSE fnArgs = Before
        /\ Handled \in {Press(KeyCode("Up", ""), {}), Press(KeyCode("Down", ""), {}),
                        Press(KeyCode("Tab", ""), {})} =>
              fnArgs = [Before EXCEPT !.textbuffer = fnArgs.textbuffer,
                                      !.history = fnArgs.history]

\* C36 witness: an Up press moved the history to the entry "h" while the
\* buffer held another text with the cursor at the head; the buffer is
\* "h" with the cursor at the tail.
C36_Witness ==
    /\ fnOp = "handle_event"
    /\ Handled = Press(KeyCode("Up", ""), {})
    /\ History_prev(Before.history).moved
    /\ TextEditor_output(Before) # <<"h">>
    /\ Len(Before.textbuffer.buf) > 1
    /\ Before.textbuffer.position = 0
    /\ TextEditor_output(fnArgs) = <<"h">>
    /\ fnArgs.textbuffer.position = 1

\* The event handled last is a press of a printable character with no
\* modifier or with Shift only.
CharPress ==
    /\ fnOp = "handle_event"
    /\ Handled.type = "Key"
    /\ Handled.code.key = "Char"
    /\ Handled.kind = "Press"
    /\ Handled.state = {}
    /\ Handled.modifiers \in {{}, {"SHIFT"}}

\* C30: a press of a printable character with no modifier or with Shift
\* only is applied to the text buffer as insert when the editor's mode is
\* Insert (the buffer grows by the character at the cursor) and as
\* overwrite when it is Overwrite (away from the tail the character at the
\* cursor is replaced and the length stays); the mode never changes.
C30_CharByMode ==
    /\ fnOp = "handle_event" => fnArgs.mode = Before.mode
    /\ CharPress =>
          LET g == Grapheme(Handled.code.ch)
              old == Before.textbuffer
              new == fnArgs.textbuffer
              p == old.position
              atTail == p = Len(old.buf) - 1
          IN /\ fnArgs = [Before EXCEPT !.textbuffer = new]
             /\ new.position = p + 1
             /\ new.buf[p + 1] = g
             /\ Before.mode = "Insert" =>
                    /\ new = TextBuffer_insert(old, g).tb
                    /\ new.buf = SubSeq(old.buf, 1, p) \o <<g>>
                                  \o SubSeq(old.buf, p + 1, Len(old.buf))
             /\ Before.mode = "Overwrite" =>
                    /\ new = TextBuffer_overwrite(old, g).tb
                    /\ new.buf = IF atTail THEN SubSeq(old.buf, 1, p) \o <<g, Sentinel>>
                                  ELSE [old.buf EXCEPT ![p + 1] = g]

\* C30 witness: in Overwrite mode a character pressed with Shift has
\* replaced the first of two graphemes.
C30_Witness ==
    /\ CharPress
    /\ Handled.modifiers = {"SHIFT"}
    /\ Before.mode = "Overwrite"
    /\ Before.textbuffer.position = 0
    /\ Len(Before.textbuffer.buf) = 3
    /\ Len(fnArgs.textbuffer.buf) = 3
    /\ fnArgs.textbuffer.buf[1] # Before.textbuffer.buf[1]

(***************************************************************************)
(* Properties of the list panes and of trim, checked under SpecListPane.   *)
(***************************************************************************)
\* The list behind the renderer whose pane was made, and its cursor glyph.
PaneList ==
    IF fnArgs.kind = "Checkbox" THEN fnArgs.renderer.checkbox ELSE fnArgs.renderer.listbox
Glyph == Graphemes(fnArgs.renderer.cursor)

\* The rows of the pane before they are trimmed to the width.
Untrimmed ==
    IF fnArgs.kind = "Checkbox" THEN Checkbox_matrix(fnArgs.renderer)
    ELSE Listbox_matrix(fnArgs.renderer)

\* s ends with t.
IsSuffix(t, s) == Len(t) <= Len(s) /\ SubSeq(s, Len(s) - Len(t) + 1, Len(s)) = t

\* Row `row` of item i (0-based): the glyph in front of the item when i is
\* the cursor position, else spaces of the glyph's display width.
RowOfItem(row, i) ==
    /\ IsSuffix(Graphemes(PaneList.items[i + 1]), row)
    /\ Len(row) >= Len(Glyph) + Len(PaneList.items[i + 1])
    /\ IF i = PaneList.position
       THEN IsPrefix(Glyph, row)
       ELSE /\ ~IsPrefix(Glyph, row)
            /\ \E n \in 1..Len(row) :
                  /\ \A k \in 1..n : row[k] = Sentinel
                  /\ Graphemes_width(SubSeq(row, 1, n)) = Graphemes_width(Glyph)
                  /\ Len(row) >= n + Len(PaneList.items[i + 1])

\* C21 as stated: in the pane of a checkbox or listbox row i shows item i,
\* exactly the row at the cursor position is prefixed with the cursor glyph,
\* every other row with spaces of the glyph's display width, and the focus
\* row is the cursor position.
C21_RowsShowItems ==
    fnOp = "make_pane" =>
        /\ Len(fnRet[1].rows) = Len(PaneList.items)
        /\ \A i \in 0..(Len(PaneList.items) - 1) : RowOfItem(fnRet[1].rows[i + 1], i)
        /\ fnRet[1].focus = PaneList.position

\* C21 amended: the pane of a checkbox or listbox has one row per item and
\* its focus row is the cursor position; row i is the leading part, cut at
\* the terminal width, of a line that shows item i behind the cursor glyph
\* when i is the cursor position and behind spaces of the glyph's display
\* width otherwise, and it is that whole line whenever the line fits the
\* width.
C21_RowsShowItemsUpToWidth ==
    fnOp = "make_pane" =>
        /\ Len(fnRet[1].rows) = Len(PaneList.items)
        /\ Len(Untrimmed) = Len(PaneList.items)
        /\ \A i \in 0..(Len(PaneList.items) - 1) :
              /\ RowOfItem(Untrimmed[i + 1], i)
              /\ IsPrefix(fnRet[1].rows[i + 1], Untrimmed[i + 1])
              /\ Graphemes_width(Untrimmed[i + 1]) <= fnArgs.width =>
                     RowOfItem(fnRet[1].rows[i + 1], i)
        /\ fnRet[1].focus = PaneList.position

\* C21 witness: a pane of three rows that fit the width, the cursor on the
\* second one, under a glyph that is one wide character.
C21_Witness ==
    /\ fnOp = "make_pane"
    /\ Len(PaneList.items) = 3
    /\ PaneList.position = 1
    /\ fnArgs.renderer.cursor = <<"W">>
    /\ fnRet[1].rows = Untrimmed
    /\ fnRet[1].focus = 1

\* C22: for all grapheme sequences s, trim(width(s), s) = s; every row of a
\* list pane made for a width has display width at most that width, and a
\* row that already fits is unchanged.
C22_TrimFits ==
    /\ (fnOp = "trim" /\ fnArgs.width = Graphemes_width(fnArgs.graphemes)) =>
           fnRet[1] = fnArgs.graphemes
    /\ fnOp = "make_pane" =>
           \A k \in 1..Len(Untrimmed) :
               /\ Graphemes_width(fnRet[1].rows[k]) <= fnArgs.width
               /\ Graphemes_width(Untrimmed[k]) <= fnArgs.width =>
                      fnRet[1].rows[k] = Untrimmed[k]

\* C22 witness: a pane with one row cut at the width and one row that fits.
C22_Witness ==
    /\ fnOp = "make_pane"
    /\ \E k \in 1..Len(Untrimmed) :
          /\ fnRet[1].rows[k] # Untrimmed[k]
          /\ fnRet[1].rows[k] # <<>>
    /\ \E k \in 1..Len(Untrimmed) :
          /\ fnRet[1].rows[k] = Untrimmed[k]
          /\ Graphemes_width(Untrimmed[k]) = fnArgs.width

(***************************************************************************)
(* Properties of Prompt::run, checked under Spec.                          *)
(***************************************************************************)
Last(seq) == seq[Len(seq)]

\* The steps of one loop iteration, the termination check included.
IterationSteps ==
    <<Step("read", 0)>>
    \o [i \in 1..NumComponents |-> Step("handle_event", i - 1)]
    \o <<Step("evaluator", 0), Step("size", 0)>>
    \o MakePanes
    \o <<Step("draw", NumComponents), Step("check", 0)>>

\* The loop has ended by break.
Finalized == pc = "done" /\ result \in {"ok", "err_output"}

\* C2: at the termination check an Enter press (the pattern of lib.rs
\* 225-230) breaks the loop if and only if the evaluator returned true for
\* that same event; when it returned false the loop goes back to reading the
\* next event and the output extractor is not invoked.
C2_EnterGate ==
    [][ (pc = "check" /\ Matches(ev, KeyCode("Enter", ""), {})) =>
            /\ evalLog # <<>>
            /\ evalLog[1].ev = ev
            /\ evalLog[1].ok
            /\ (pc' = "output") <=> evalLog[1].value
            /\ ~evalLog[1].value => (pc' = "read" /\ outCalls' = 0 /\ result' = "running")
      ]_vars

\* C2 witness: the evaluator has declined an Enter press after text was
\* typed, and the loop is back at reading the next event.
C2_Witness ==
    /\ pc = "read"
    /\ ev = EnterPress
    /\ evalLog # <<>>
    /\ evalLog[1].ev = EnterPress
    /\ ~evalLog[1].value
    /\ outCalls = 0
    /\ Len(components[1].textbuffer.buf) > 1

\* C3 as stated: whenever the event read is a Ctrl+C press, whatever the
\* evaluator returns, run returns Interrupted and the output extractor is
\* never invoked.
C3_AlwaysInterrupted ==
    (pc = "done" /\ ev = CtrlC) => (result = "interrupted" /\ outCalls = 0)

\* C3 amended: once a Ctrl+C press is read no further event is read and the
\* output extractor is never invoked; run returns Interrupted when the
\* evaluator returned Ok (true or false) and the size query and the redraw
\* succeeded, and otherwise returns the error of the step that failed.
C3_InterruptedUnlessStepFails ==
    ev = CtrlC =>
        /\ pc \in {"handle_event", "evaluate", "size", "draw", "check", "done"}
        /\ outCalls = 0
        /\ pc = "done" =>
               result = CASE Last(steps).op = "evaluator" -> "err_evaluator"
                          [] Last(steps).op = "size" -> "err_size"
                          [] Last(steps).op = "draw" -> "err_draw"
                          [] OTHER -> "interrupted"
        /\ (pc = "done" /\ Last(steps).op = "check") =>
               (evalLog[1].ok /\ result = "interrupted")

\* C3 witness: run has returned Interrupted for a Ctrl+C press on which the
\* evaluator returned true.
C3_Witness ==
    /\ pc = "done"
    /\ ev = CtrlC
    /\ result = "interrupted"
    /\ evalLog[1].value
    /\ Len(components[1].textbuffer.buf) > 1

C5_RestoreOnEveryExit ==
    (pc = "done" /\ result # "err_enable_raw_mode") =>
        /\ \A op \in {"Show", "MoveToNextLine", "disable_raw_mode"} :
               \E i \in 1..Len(restoreOps) : restoreOps[i] = op
        /\ cursorShown
        /\ ~rawMode

\* C6: for every event read the steps happen in this order, each exactly
\* once: handle_event on every component in list order, the evaluator, one
\* redraw of all components' panes, the termination check; the next event is
\* not read before the redraw has completed.
C6_StepOrder ==
    ev # NoEvent =>
        /\ IsPrefix(steps, IterationSteps) \/ IsPrefix(IterationSteps, steps)
        /\ pc = "check" => steps = SubSeq(IterationSteps, 1, Len(IterationSteps) - 1)
        /\ pc = "read" => steps = IterationSteps

\* C6 witness: an iteration has completed and the loop is about to read the
\* next event.
C6_Witness ==
    /\ pc = "read"
    /\ ev # NoEvent
    /\ steps = IterationSteps
    /\ components[2].position = 1

\* run has returned the error of a failed read, evaluator, size query or
\* redraw.
Failed == pc = "done" /\ result \in {"err_read", "err_evaluator", "err_size", "err_draw"}

\* C27: a failure of reading an event, of the evaluator, of the size query
\* or of drawing ends run at once with that error: the failed step is the
\* last step taken, no step is taken twice in a row, nothing happens after
\* run has returned (no further event is read), and neither the output
\* extractor nor postrun is invoked.
C27_FailureEndsRun ==
    /\ [](Failed =>
            /\ outCalls = 0
            /\ outSeen = <<>>
            /\ retval = <<>>
            /\ postrunLog = <<>>
            /\ result = "err_evaluator" => Last(steps).op = "evaluator"
            /\ result = "err_size" => Last(steps).op = "size"
            /\ result = "err_draw" => Last(steps).op = "draw"
            /\ result = "err_read" => Last(steps).op \in {"draw", "check"})
    /\ [](\A i \in 1..(Len(steps) - 1) :
            steps[i].op \in {"read", "evaluator", "size", "draw"} =>
                steps[i + 1].op # steps[i].op)
    /\ [][pc # "done"]_vars
    /\ [][result' # result => (pc' = "done" /\ components' = components /\ ev' = ev)]_vars

\* C27 witness: the evaluator has failed on an Enter press after text was
\* typed, and run has returned its error.
C27_Witness ==
    /\ Failed
    /\ result = "err_evaluator"
    /\ ev = EnterPress
    /\ Len(components[1].textbuffer.buf) > 1
    /\ outCalls = 0

(***************************************************************************)
(* Properties of a form session, checked under SpecForm.                   *)
(***************************************************************************)
\* The key and modifier combinations bound by the text editor and by run.
BoundPress(e) ==
    /\ e.type = "Key"
    /\ e.kind = "Press"
    /\ \/ e.code.key \in {"Enter", "Left", "Right", "Backspace", "Up", "Down", "Tab"}
          /\ e.modifiers = {}
       \/ e.code.key = "Char" /\ e.modifiers \in {{}, {"SHIFT"}}
       \/ e.code.key = "Char" /\ e.code.ch \in {"a", "e", "u", "c"}
          /\ e.modifiers = {"CONTROL"}

\* An event has been read and it is no press of a bound combination.
Unbound == ev # NoEvent /\ ~BoundPress(ev)

\* C26: an event that is not a key press with one of the bound key and
\* modifier combinations (a release or repeat, an unbound modifier such as
\* Alt or Ctrl+Shift, a non-key event) leaves every text editor's buffer,
\* cursor and history unchanged and never ends the loop: the termination
\* check goes back to reading, the output extractor is not invoked and run
\* neither finalizes nor is interrupted.
C26_UnboundEventIgnored ==
    /\ [](Unbound =>
            /\ pc \in {"handle_event", "evaluate", "size", "draw", "check", "read", "done"}
            /\ outCalls = 0
            /\ result \in {"running", "err_read", "err_evaluator", "err_size", "err_draw"})
    /\ [][ (Unbound /\ pc # "read") =>
              \A i \in 1..NumComponents :
                  components[i].kind = "TextEditor" => components'[i] = components[i]
         ]_vars
    /\ [][ (Unbound /\ pc = "check") => (pc' = "read" /\ result' = "running") ]_vars

\* C26 witness: Ctrl+Shift+C was read while the editor held text with the
\* cursor at the head, the evaluator returned true for it, and the session
\* is reading the next event.
C26_Witness ==
    /\ pc = "read"
    /\ ev = Press(KeyCode("Char", "c"), {"CONTROL", "SHIFT"})
    /\ evalLog # <<>>
    /\ evalLog[1].value
    /\ Len(components[1].textbuffer.buf) > 1
    /\ components[1].textbuffer.position = 0
    /\ result = "running"

\* The steps run takes before it reads the first event.
StepsBeforeFirstRead ==
    <<Step("enable_raw_mode", 0), Step("hide", 0), Step("start_session", 0),
      Step("size", 0)>>
    \o MakePanes \o <<Step("draw", NumComponents)>>

\* Every component's make_pane got the width queried last.
PassedQueried == widthLog.passed = [i \in 1..NumComponents |-> widthLog.queried[1]]

\* C28: run draws the initial frame before it reads the first event, and
\* on every redraw, the initial one and the one after each event, the width
\* passed to every component's make_pane is the terminal width queried
\* right before in that same iteration, never one kept from an earlier
\* iteration.
C28_WidthQueriedEachRedraw ==
    /\ []((pc = "read" /\ ev = NoEvent) => (steps = StepsBeforeFirstRead /\ PassedQueried))
    /\ [](widthLog.passed # <<>> => PassedQueried)
    /\ [](steps # <<>> /\ Last(steps).op = "draw" =>
            /\ PassedQueried
            /\ steps[Len(steps) - NumComponents - 1] = Step("size", 0)
            /\ SubSeq(steps, Len(steps) - NumComponents, Len(steps) - 1) = MakePanes)
    /\ [][ (ev = NoEvent /\ ev' # NoEvent) => (pc = "read" /\ Last(steps).op = "draw") ]_vars

\* C28 witness: the terminal was resized between two iterations, and the
\* redraw after the resize event passed the new width to every component.
C28_Witness ==
    /\ pc = "check"
    /\ ev = ResizeEvent
    /\ widthLog.previous # <<>>
    /\ widthLog.previous # widthLog.queried
    /\ PassedQueried
    /\ size = widthLog.queried

\* The indices of all components, in order.
AllComponents == [i \in 1..NumComponents |-> i - 1]

\* C29: postrun is invoked exactly once on every component, in component
\* order, when and only when the loop has ended by finalization, never
\* while the loop is running; on a checkbox and on a listbox it moves the
\* selection cursor to the head and changes nothing else.
C29_PostrunOnceAfterLoop ==
    /\ IsPrefix(postrunLog, AllComponents)
    /\ pc \notin {"postrun", "return", "done"} => postrunLog = <<>>
    /\ pc = "done" => postrunLog = (IF Finalized THEN AllComponents ELSE <<>>)
    /\ Finalized =>
          \A i \in 1..NumComponents :
              components[i].kind \in {"Checkbox", "Listbox"} =>
                  /\ components[i].position = 0
                  /\ components[i] = [outSeen[1].components[i] EXCEPT !.position = 0]

\* C29 witness: a finalized form whose checkbox and listbox cursors were on
\* the second item when the loop ended; the extractor failed and postrun
\* ran all the same.
C29_Witness ==
    /\ Finalized
    /\ result = "err_output"
    /\ outSeen[1].components[2].position = 1
    /\ outSeen[1].components[3].position = 1
    /\ components[3].position = 0
    /\ postrunLog = AllComponents

\* The text editors among the components.
TextEditors == {i \in 1..NumComponents : components[i].kind = "TextEditor"}

\* The evaluator has returned false for the Enter press read last.
EnterNotFinalizable ==
    /\ ev = EnterPress
    /\ evalLog # <<>>
    /\ evalLog[1].ok
    /\ ~evalLog[1].value

\* C35: the text editor inserts its buffer content into the history on
\* every Enter press, in handle_event and so before the evaluator runs,
\* whether or not the evaluator then lets the loop finalize: each dispatch
\* of an Enter press to the editor is one history insert of the content,
\* no other step of run changes the texts of the history, and after an
\* Enter press the evaluator refused the history holds the content while
\* the loop goes on.  The inserts of a session are as many as its Enter
\* presses, not one per finalized input.
C35_HistoryInsertOnEveryEnter ==
    /\ [][ \A i \in TextEditors :
              IF pc = "handle_event" /\ idx + 1 = i /\ ev = EnterPress
              THEN components'[i].history =
                       History_insert(components[i].history,
                                      TextEditor_output(components[i]))
              ELSE components'[i].history.buf = components[i].history.buf
         ]_vars
    /\ []((EnterNotFinalizable /\ pc \in {"size", "draw", "check"}) =>
            \A i \in TextEditors :
                /\ History_exists(components[i].history, TextEditor_output(components[i]))
                /\ components[i].history.position = Len(components[i].history.buf) - 1)
    /\ [][ (EnterNotFinalizable /\ pc = "check") => (pc' = "read" /\ result' = "running")
         ]_vars

\* C35 witness: the evaluator refused an Enter press on the text "h"; the
\* history holds "h" and the loop is reading the next event.
C35_Witness ==
    /\ pc = "read"
    /\ result = "running"
    /\ EnterNotFinalizable
    /\ TextEditor_output(components[1]) = <<"h">>
    /\ components[1].history.buf = << <<"h">>, <<>> >>

(***************************************************************************)
(* Properties of the selection presets, checked under SpecSelection.       *)
(***************************************************************************)
\* The viewer of the session.
Viewer == components[2]

\* C39: the select, tree and JSON presets use an evaluator that always
\* returns true, so the first Enter press finalizes the session: after an
\* Enter press the loop reads no further event, and unless the size query
\* or the redraw of that iteration fails run returns Ok.  The value is the
\* row under the cursor of component 1 as the navigation events before the
\* Enter left it, read before postrun moves the cursor to the head; it is
\* not the head row unless the cursor was there.
C39_FirstEnterReturnsRowUnderCursor ==
    /\ [](evalLog # <<>> => (evalLog[1].ok /\ evalLog[1].value))
    /\ [](ev = EnterPress =>
            /\ pc # "read"
            /\ pc = "done" => result \in {"ok", "err_size", "err_draw"})
    /\ [](pc \in {"output", "postrun", "return"} \/ result = "ok" => ev = EnterPress)
    /\ [](retval # <<>> =>
            /\ retval[1].ok
            /\ retval[1].value =
                   outSeen[1].components[2].items[outSeen[1].components[2].position + 1]
            /\ outSeen[1].postrunLog = <<>>)
    /\ [][ pc = "check" /\ ev = EnterPress => pc' = "output" ]_vars
    /\ [][ pc = "output" =>
              /\ retval'[1].value = Viewer.items[Viewer.position + 1]
              /\ outSeen'[1].components = components ]_vars
    /\ [][ (ev = EnterPress /\ pc \in {"evaluate", "size", "draw", "check", "output"}) =>
              components' = components ]_vars

\* C39 witness: the cursor was on the second row when Enter was pressed;
\* run has returned Ok of the second row, and postrun has put the cursor
\* back on the first.
C39_Witness ==
    /\ pc = "done"
    /\ result = "ok"
    /\ retval[1].value = "q"
    /\ retval[1].value # Viewer.items[1]
    /\ outSeen[1].components[2].position = 1
    /\ Viewer.position = 0
    /\ postrunLog = <<0, 1>>

(***************************************************************************)
(* Properties of the password preset, checked under SpecPassword.          *)
(***************************************************************************)
\* The session's text editor and error message.
Editor == components[2]
ErrorMessage == components[3]

\* The characters of a buffer's graphemes before the last one.
ContentWithoutSentinel(t) == [i \in 1..(Len(t.buf) - 1) |-> t.buf[i].ch]

\* The session has read exactly 'h', 'i', Enter, in insert mode and with no
\* validator configured.
InScenario ==
    /\ keys = Scenario
    /\ ~session.validator
    /\ Editor.mode = "Insert"

\* The loop steps of the current event that come after the editor handled it.
PastEditor == pc \in {"evaluate", "size", "draw", "check"} \/ (pc = "handle_event" /\ idx > 1)

\* C13: an insert-mode text editor with no validator that receives the key
\* presses 'h', 'i', Enter finalizes on that Enter (no further event is
\* read, and run returns Ok unless the size query or the redraw of that
\* Enter fails), the output is "hi" and the history has received "hi"; in
\* general an Enter press leaves the editor's text buffer unchanged and
\* inserts its text into the history, and the output equals the content of
\* the buffer the extractor was given, without the sentinel.
C13_EnterOutputsText ==
    /\ [](InScenario =>
            /\ pc # "read"
            /\ PastEditor =>
                  /\ TextBuffer_to_string_without_cursor(Editor.textbuffer) = <<"h", "i">>
                  /\ Editor.history.buf = << <<"h", "i">>, <<>> >>
            /\ pc \in {"size", "draw", "check"} => finalizable
            /\ pc = "done" =>
                  \/ result = "ok" /\ retval = <<[ok |-> TRUE, value |-> <<"h", "i">>]>>
                  \/ result \in {"err_size", "err_draw"} /\ retval = <<>>)
    /\ [](retval # <<>> =>
            retval[1].value = ContentWithoutSentinel(outSeen[1].components[2].textbuffer))
    /\ [][ (pc = "handle_event" /\ idx = 1 /\ ev = EnterPress) =>
              /\ components'[2].textbuffer = Editor.textbuffer
              /\ components'[2].history =
                     History_insert(Editor.history, ContentWithoutSentinel(Editor.textbuffer))
         ]_vars

\* C13 witness: run has returned Ok("hi") after exactly 'h', 'i', Enter, with
\* "hi" in the history.
C13_Witness ==
    /\ InScenario
    /\ pc = "done"
    /\ result = "ok"
    /\ retval[1].value = <<"h", "i">>
    /\ History_exists(Editor.history, <<"h", "i">>)

\* The session's validator rejects the text the editor holds.
Rejected == session.validator /\ ~Validator_validate(TextEditor_output(Editor))

\* C18: with the password preset and a validator configured, an Enter press
\* on text the validator rejects does not end the loop and is no error: the
\* evaluator returns Ok(false), the error-message component's text is the
\* validator's message for that text, and the termination check sends the
\* session back to reading events.
C18_RejectedEnterKeepsReading ==
    /\ []((Rejected /\ ev = EnterPress /\ pc \in {"size", "draw", "check", "read"}) =>
            /\ evalLog = <<[ev |-> EnterPress, ok |-> TRUE, value |-> FALSE]>>
            /\ pc # "read" => ~finalizable
            /\ ErrorMessage.text = Validator_error_message(TextEditor_output(Editor))
            /\ result = "running"
            /\ outCalls = 0)
    /\ [][ (Rejected /\ ev = EnterPress /\ pc = "check") =>
              (pc' = "read" /\ result' = "running" /\ components' = components)
         ]_vars

\* C18 witness: the validator has rejected the text "h" on Enter, its
\* message for "h" is shown, and the session is reading the next event.
C18_Witness ==
    /\ Rejected
    /\ pc = "read"
    /\ ev = EnterPress
    /\ TextEditor_output(Editor) = <<"h">>
    /\ ErrorMessage.text = <<"too short: ", "h">>
    /\ result = "running"

\* The evaluator has been called for the event read last and returned
\* Ok(true).
EvaluatedTrue == evalLog # <<>> /\ evalLog[1].ok /\ evalLog[1].value

\* The error message shows what it was built with.
MessageReset == ErrorMessage = Text_new(ErrorMessage.init)

\* C37: in the password preset the evaluator returns true for every event
\* that is not an Enter press and for an Enter press whose text passes
\* validation, and whenever it returns true it resets the error-message
\* component to its initial state; nothing but the evaluator changes the
\* message.  So the message a rejected Enter set is shown until the next
\* event that is not another rejected Enter, whose evaluation resets it.
C37_MessageResetWhenTrue ==
    /\ []((evalLog # <<>> /\ pc \in {"size", "draw", "check", "read"}) =>
            (evalLog[1].value <=> ~(ev = EnterPress /\ Rejected)))
    /\ [](EvaluatedTrue => MessageReset)
    /\ []((evalLog # <<>> /\ ~evalLog[1].value) =>
            /\ pc \in {"size", "draw", "check", "read", "done"}
            /\ ErrorMessage.text = Validator_error_message(TextEditor_output(Editor)))
    /\ [][ components'[3] # components[3] => pc = "evaluate" ]_vars
    /\ [][ (pc = "evaluate" /\ ~(ev = EnterPress /\ Rejected)) =>
              components'[3] = Text_new(ErrorMessage.init) ]_vars

\* C37 witness: an Enter press on "h" was rejected, which put "h" into the
\* history and set the message; the next key, 'i', has been evaluated and
\* the message is reset while the loop goes on.
C37_Witness ==
    /\ session.validator
    /\ History_exists(Editor.history, <<"h">>)
    /\ ev = Press(KeyCode("Char", "i"), {})
    /\ pc = "check"
    /\ EvaluatedTrue
    /\ TextEditor_output(Editor) = <<"h", "i">>
    /\ MessageReset
    /\ ErrorMessage.text = <<>>
    /\ result = "running"

\* C38: with the password preset and a validator configured, whenever run
\* returns Ok(text) the validator accepts text: the loop breaks only on an
\* Enter press for which the evaluator, that is the validator on the
\* editor's text, returned true, and the extractor reads that same text,
\* before postrun resets the editor.  No sequence of events finalizes with
\* a value the validator rejects.
C38_OutputPassesValidator ==
    /\ [](session.validator =>
            /\ result = "ok" =>
                  /\ retval # <<>>
                  /\ retval[1].ok
                  /\ Validator_validate(retval[1].value)
            /\ retval # <<>> =>
                  /\ Validator_validate(retval[1].value)
                  /\ retval[1].value = TextEditor_output(outSeen[1].components[2])
            /\ pc \in {"output", "postrun", "return"} =>
                  /\ ev = EnterPress
                  /\ evalLog = <<[ev |-> EnterPress, ok |-> TRUE, value |-> TRUE]>>)
    /\ [][ (session.validator /\ pc = "check" /\ pc' = "output") =>
              Validator_validate(TextEditor_output(Editor)) ]_vars

\* C38 witness: a session with a validator has returned Ok("hi"), a text of
\* the length the validator asks for, after the keys 'h', 'i' and Enter.
C38_Witness ==
    /\ session.validator
    /\ pc = "done"
    /\ result = "ok"
    /\ retval[1].value = <<"h", "i">>
    /\ Validator_validate(retval[1].value)
    /\ ~Validator_validate(<<"h">>)

====
